---- MODULE Spec2Model ----
(***************************************************************************)
(* Hybrid movie recommendation engine (recommendations/algorithms.py) over *)
(* the rating / favorite / profile store and the similarity-matrix cache.  *)
(*                                                                         *)
(* Number representation (Python floats are modelled in fixed point):      *)
(*   rating            half stars, 1..10            (rating = h / 2)       *)
(*   vote_average      tenths, 0..100               (vote_average = v/10)  *)
(*   similarity        thousandths, 0..1000                                *)
(*   config weights    hundredths                                          *)
(*   strategy score    1e-5 units   (collaborative: up to 5.0 = 500000)    *)
(*   weighted score    1e-7 units   (strategy score * weight)              *)
(* Threshold tests (> 0.1) are made exactly, by cross multiplication.      *)
(* The predicted rating of one movie is also worked out in Python floats  *)
(* (binary64), bit for bit: sections "Python float arithmetic" and         *)
(* "predicted rating".                                                     *)
(* Rows of a query that states no total order come in primary-key order.   *)
(***************************************************************************)
EXTENDS Integers, Sequences, FiniteSets, TLC

\* ------------------------------------------------------------------ bounds
NumUsers == 3
NumMovies == 6
MaxLimit == 3

\* the largest number of attempts a TMDb request is given
MaxRetries == 3

\* the largest number of neighbors in a user's row of the similarity matrix
MaxNeighbors == 2

Users == 1..NumUsers
Movies == 1..NumMovies
Limits == 0..MaxLimit

\* ------------------------------------------------------- program constants
min_common_ratings == 5

\* settings.RECOMMENDATION_CONFIG as read by HybridRecommendationEngine.__init__;
\* weights in hundredths.  The deployment's values are an input of the engine.
ConfigChoices ==
    { [MIN_RATING_COUNT |-> 5, COLLABORATIVE_WEIGHT |-> 60,
       CONTENT_BASED_WEIGHT |-> 40, POPULARITY_WEIGHT |-> 50],
      [MIN_RATING_COUNT |-> 6, COLLABORATIVE_WEIGHT |-> 10,
       CONTENT_BASED_WEIGHT |-> 100, POPULARITY_WEIGHT |-> 100] }

\* ----------------------------------------------------------------- catalog
\* Movie rows (movies/models.py): popularity, vote_average (tenths),
\* vote_count, genre_ids.  A row that is not listed has the field defaults.
Movie(m) ==
    CASE m = 1 -> [id |-> 1, popularity |-> 90,  vote_average |-> 80,
                   vote_count |-> 500,  genre_ids |-> <<878>>]
      [] m = 2 -> [id |-> 2, popularity |-> 80,  vote_average |-> 75,
                   vote_count |-> 300,  genre_ids |-> <<28, 12>>]
      [] m = 3 -> [id |-> 3, popularity |-> 50,  vote_average |-> 70,
                   vote_count |-> 200,  genre_ids |-> <<18>>]
      [] m = 4 -> [id |-> 4, popularity |-> 8,   vote_average |-> 65,
                   vote_count |-> 150,  genre_ids |-> <<35, 18>>]
      [] m = 5 -> [id |-> 5, popularity |-> 20,  vote_average |-> 90,
                   vote_count |-> 50,   genre_ids |-> <<99>>]
      [] m = 6 -> [id |-> 6, popularity |-> 120, vote_average |-> 85,
                   vote_count |-> 1000, genre_ids |-> <<28, 878>>]
      [] OTHER -> [id |-> m, popularity |-> 0,   vote_average |-> 0,
                   vote_count |-> 0,    genre_ids |-> << >>]

\* ------------------------------------------------------------------- state
VARIABLES
    ratings,           \* MovieRating rows per user, in creation order
    favorites,         \* UserFavorite rows: set of movie ids per user
    preferred_genres,  \* User.preferred_genres: sequence of genre names
    config,            \* HybridRecommendationEngine.config
    cache,             \* cache entry "user_similarity_matrix"
    lastCall,          \* the engine call whose answer is being returned
    recommendations,   \* Recommendation rows: how many per (user, movie, type)
    workers,           \* the runs of the background tasks and where each stands
    computations,      \* the executions of get_user_similarity_matrix under way
    writes,            \* rating writes since the executions began
    favoriteRows,      \* UserFavorite rows with their primary keys
    nextId,            \* the primary key the next UserFavorite row gets
    response,          \* the answer to the last rating or favorite request
    fetch,             \* the call of TMDBService._make_request under way
    prediction,        \* one movie's sums in the collaborative filter's loop
    candidate,         \* one candidate of the content filter and what became of it
    store,             \* Recommendation rows with their expiry, the response cache, the clock
    cosine,            \* one pair of users in the similarity matrix's inner loop
    merged             \* one list of weighted entries and the engine's final list of it

\* the state of the background tasks
taskVars == <<recommendations, workers>>

\* the state of the step-by-step matrix computations
matrixVars == <<computations, writes>>

\* the state of the rating and favorite endpoints
apiVars == <<favoriteRows, nextId, response>>

\* the state of the TMDb request
fetchVars == <<fetch>>

\* the state of one movie's predicted rating
predictVars == <<prediction>>

\* the state of one candidate's content score
contentVars == <<candidate>>

\* the state of the recommendation rows and the response cache
storeVars == <<store>>

\* the state of one pair's similarity
cosineVars == <<cosine>>

\* the state of one merge
mergeVars == <<merged>>

\* what the engine and the request handlers leave alone
aux == <<taskVars, matrixVars, apiVars, fetchVars, predictVars, contentVars, storeVars,
         cosineVars, mergeVars>>

\* what the background tasks leave alone, the engine's state apart
taskAux ==
    <<matrixVars, apiVars, fetchVars, predictVars, contentVars, storeVars, cosineVars,
      mergeVars>>

\* what the matrix computations leave alone, the engine's state apart
matrixAux ==
    <<taskVars, apiVars, fetchVars, predictVars, contentVars, storeVars, cosineVars,
      mergeVars>>

\* what the rating and favorite endpoints leave alone, the engine's state apart
apiAux ==
    <<taskVars, matrixVars, fetchVars, predictVars, contentVars, storeVars, cosineVars,
      mergeVars>>

\* what the TMDb request leaves alone, the engine's state apart
fetchAux ==
    <<taskVars, matrixVars, apiVars, predictVars, contentVars, storeVars, cosineVars,
      mergeVars>>

\* what the predicted rating leaves alone, the engine's state apart
predictAux ==
    <<taskVars, matrixVars, apiVars, fetchVars, contentVars, storeVars, cosineVars,
      mergeVars>>

\* what the content score leaves alone, the engine's state apart
contentAux ==
    <<taskVars, matrixVars, apiVars, fetchVars, predictVars, storeVars, cosineVars,
      mergeVars>>

\* what the recommendation rows' operations leave alone, the engine's state apart
storeAux ==
    <<taskVars, matrixVars, apiVars, fetchVars, predictVars, contentVars, cosineVars,
      mergeVars>>

\* what one pair's similarity leaves alone, the engine's state apart
cosineAux ==
    <<taskVars, matrixVars, apiVars, fetchVars, predictVars, contentVars, storeVars,
      mergeVars>>

\* what one merge leaves alone, the engine's state apart
mergeAux ==
    <<taskVars, matrixVars, apiVars, fetchVars, predictVars, contentVars, storeVars,
      cosineVars>>

vars == <<ratings, favorites, preferred_genres, config, cache, lastCall, aux>>

\* ----------------------------------------------------------------- helpers
Min(a, b) == IF a < b THEN a ELSE b
Max(a, b) == IF a > b THEN a ELSE b

Range(s) == { s[i] : i \in DOMAIN s }

RECURSIVE SumFn(_)
SumFn(f) ==
    IF DOMAIN f = {} THEN 0
    ELSE LET x == CHOOSE x \in DOMAIN f : TRUE
         IN  f[x] + SumFn([y \in DOMAIN f \ {x} |-> f[y]])

RECURSIVE ISqrtIter(_, _, _)
ISqrtIter(n, lo, hi) ==
    IF lo >= hi THEN lo
    ELSE LET mid == (lo + hi + 1) \div 2
         IN  IF mid * mid <= n THEN ISqrtIter(n, mid, hi)
             ELSE ISqrtIter(n, lo, mid - 1)

\* floor of the square root
ISqrt(n) == ISqrtIter(n, 0, 46340)

\* mutant: the slice keeps one element too many
Slice_OffByOne(seq, n) == SubSeq(seq, 1, Min(n + 1, Len(seq)))

\* Python seq[:n] for n >= 0
Slice(seq, n) == SubSeq(seq, 1, Min(n, Len(seq)))

Reverse(seq) == [i \in 1..Len(seq) |-> seq[Len(seq) + 1 - i]]

\* ascending sequence of a set of integers
RECURSIVE AscSeq(_)
AscSeq(S) ==
    IF S = {} THEN << >>
    ELSE LET x == CHOOSE x \in S : \A y \in S : x <= y
         IN  <<x>> \o AscSeq(S \ {x})

\* list.sort(key=score, reverse=True): stable, descending by score
RECURSIVE InsertDesc(_, _)
InsertDesc(sorted, e) ==
    IF sorted = << >> THEN <<e>>
    ELSE IF Head(sorted).score >= e.score
         THEN <<Head(sorted)>> \o InsertDesc(Tail(sorted), e)
         ELSE <<e>> \o sorted

RECURSIVE SortDescFrom(_, _)
SortDescFrom(seq, acc) ==
    IF seq = << >> THEN acc
    ELSE SortDescFrom(Tail(seq), InsertDesc(acc, Head(seq)))

SortDesc(seq) == SortDescFrom(seq, << >>)

\* ------------------------------------------------------------ store reads
\* MovieRating.objects.filter(user=u).values_list('movie_id', flat=True)
RatedMovies(u) == { ratings[u][i].movie : i \in DOMAIN ratings[u] }

\* dict(MovieRating.objects.filter(user=u).values_list('movie_id', 'rating'))
RatingDict(u) ==
    [m \in RatedMovies(u) |->
        (CHOOSE r \in Range(ratings[u]) : r.movie = m).rating]

\* MovieRating.Meta.ordering = ['-created_at']: latest created first
RatingRows(u) == Reverse(ratings[u])

\* user.movie_ratings.count()
RatingCount(u) == Len(ratings[u])

\* excluded_movies: favorites and rated movies of the user
ExcludedMovies(u) == favorites[u] \cup RatedMovies(u)

\* ------------------------------------------------------ similarity engine
\* mutant: the minimum of common movies is not required
_calculate_cosine_similarity_NoMinimum(ratings1, ratings2) ==
    [dot |-> SumFn([m \in DOMAIN ratings1 \cap DOMAIN ratings2 |->
                        ratings1[m] * ratings2[m]]),
     normsq |-> SumFn([m \in DOMAIN ratings1 |-> ratings1[m] * ratings1[m]])
                * SumFn([m \in DOMAIN ratings2 |-> ratings2[m] * ratings2[m]])]

\* _calculate_cosine_similarity: the value dot / sqrt(normsq), kept exactly as
\* the pair (dot, normsq); 0.0 is the pair (0, 1).  dot and the squared norms
\* are in quarter stars, which cancel in the quotient.
_calculate_cosine_similarity(ratings1, ratings2) ==
    IF Cardinality(DOMAIN ratings1 \cap DOMAIN ratings2) < min_common_ratings
    THEN [dot |-> 0, normsq |-> 1]
    ELSE [dot |-> SumFn([m \in DOMAIN ratings1 \cap DOMAIN ratings2 |->
                            ratings1[m] * ratings2[m]]),
          normsq |-> SumFn([m \in DOMAIN ratings1 |-> ratings1[m] * ratings1[m]])
                     * SumFn([m \in DOMAIN ratings2 |-> ratings2[m] * ratings2[m]])]

\* similarity > 0.1, exactly (a zero norm gives 0.0)
AboveThreshold(sim) ==
    sim.dot > 0 /\ sim.normsq > 0 /\ 100 * sim.dot * sim.dot > sim.normsq

\* the similarity in thousandths
SimMilli(sim) == (sim.dot * 10000) \div ISqrt(sim.normsq * 100)

\* similar_users of one user, from the similarity to every other eligible user
SimilarUsers(sims) ==
    [v \in { v \in DOMAIN sims : AboveThreshold(sims[v]) } |-> SimMilli(sims[v])]

\* User.objects.filter(movie_ratings__isnull=False).distinct()
UsersWithRatings == { u \in Users : RatingCount(u) > 0 }

\* the loops of get_user_similarity_matrix over the users that pass
\* `len(user_ratings) < self.min_common_ratings: continue`
SimilarityMatrixOver(eligible) ==
    [u \in eligible |->
        SimilarUsers([v \in eligible \ {u} |->
            _calculate_cosine_similarity(RatingDict(u), RatingDict(v))])]

\* the matrix get_user_similarity_matrix computes on a cache miss:
\* a function from the eligible users to functions neighbor -> similarity
ComputeSimilarityMatrix ==
    SimilarityMatrixOver({ u \in UsersWithRatings :
                            ~ (RatingCount(u) < min_common_ratings) })

\* The cache entry: present or not, and the matrix it holds.
NoMatrix == [present |-> FALSE, matrix |-> << >>]
Cached(matrix) == [present |-> TRUE, matrix |-> matrix]

\* `if cached_matrix:` -- an entry that is present and is a non-empty dict
CacheHit(entry) == entry.present /\ DOMAIN entry.matrix # {}

\* cache.set(cache_key, similarity_matrix, 3600); return similarity_matrix
StoreMatrix(similarity_matrix) ==
    [matrix |-> similarity_matrix, cache |-> Cached(similarity_matrix)]

\* get_user_similarity_matrix: the matrix returned and the cache afterwards
get_user_similarity_matrix(entry) ==
    IF CacheHit(entry)
    THEN [matrix |-> entry.matrix, cache |-> entry]
    ELSE StoreMatrix(ComputeSimilarityMatrix)

\* ------------------------------------------------------------ result type
Entry(m, s, r) == [movie |-> m, score |-> s, reason |-> r]

\* what a call that may raise yields
Returned(v) == [raised |-> FALSE, value |-> v]
Raised == [raised |-> TRUE, value |-> << >>]

\* mutant: the handler is missing, the exception goes on
Caught_Reraised(try) == try

\* except Exception: log, return []
Caught(try) == IF try.raised THEN Returned(<< >>) ELSE try

\* ---------------------------------------------------- collaborative filter
\* f"Recommended by users with similar tastes (score: {predicted_rating:.2f})"
\* the predicted rating (1e-5 units) rounded to hundredths
CollabReason(predicted) ==
    <<"Recommended by users with similar tastes (score: ",
      (predicted + 500) \div 1000, ")">>

CollabEntry(m, predicted) == Entry(m, predicted, CollabReason(predicted))

\* movie ids in the order the accumulation loop first meets them: neighbors
\* in the matrix's insertion order, each neighbor's rows latest first,
\* without the movies the user rated
RECURSIVE Discovered(_, _, _)
Discovered(neighbors, rated, seen) ==
    IF neighbors = << >> THEN seen
    ELSE Discovered(Tail(neighbors), rated,
            seen \o SelectSeq(
                [i \in 1..RatingCount(Head(neighbors)) |->
                    RatingRows(Head(neighbors))[i].movie],
                LAMBDA m : m \notin rated /\ m \notin Range(seen)))

\* movie_scores: weighted_sum (half stars * thousandths) and weight_sum
\* (thousandths) per movie some neighbor rated and the user did not
MovieScores(similar, user_rated_movies) ==
    [m \in UNION { RatedMovies(v) : v \in DOMAIN similar } \ user_rated_movies |->
        [weighted_sum |->
            SumFn([v \in { v \in DOMAIN similar : m \in RatedMovies(v) } |->
                        RatingDict(v)[m] * similar[v]]),
         weight_sum |->
            SumFn([v \in { v \in DOMAIN similar : m \in RatedMovies(v) } |->
                        similar[v]])]]

\* weighted_sum / weight_sum in 1e-5 units (a rating of h half stars is 50000 h)
PredictedRating(scores) == (scores.weighted_sum * 50000) \div scores.weight_sum

\* lines 153-170: score, look the movie up, sort, truncate
CollabRank(order, movie_scores, limit) ==
    Slice(SortDesc(
        [i \in 1..Len(order) |-> CollabEntry(order[i],
                                    PredictedRating(movie_scores[order[i]]))]),
        limit)

\* the body of CollaborativeFiltering.get_recommendations after the matrix
\* has been fetched (lines 126-170)
CollabFromMatrix(matrix, user, limit) ==
    IF user \notin DOMAIN matrix THEN << >>
    ELSE CollabRank(
            SelectSeq(Discovered(AscSeq(DOMAIN matrix[user]), RatedMovies(user), << >>),
                      LAMBDA m : m \in Movies
                          /\ MovieScores(matrix[user], RatedMovies(user))[m].weight_sum > 0),
            MovieScores(matrix[user], RatedMovies(user)),
            limit)

\* Where a strategy's store access may fail: "ok", or the step that raises.
CollabFailPoints == {"ok", "matrix", "ratings"}

\* lines 126-170 with the matrix call's result; the query of the user's rated
\* movies is the store access that may raise
CollabWithMatrix(got, user, limit, failAt) ==
    IF failAt = "ratings" /\ user \in DOMAIN got.matrix
    THEN [outcome |-> Raised, cache |-> got.cache]
    ELSE [outcome |-> Returned(CollabFromMatrix(got.matrix, user, limit)),
          cache |-> got.cache]

\* the try-body of CollaborativeFiltering.get_recommendations: the outcome
\* and the cache afterwards
CollabTry(entry, user, limit, failAt) ==
    IF failAt = "matrix"
    THEN [outcome |-> Raised, cache |-> entry]
    ELSE CollabWithMatrix(get_user_similarity_matrix(entry), user, limit, failAt)

\* except Exception as e: ... return []  (lines 172-174)
CollabCaught(try) == [outcome |-> Caught(try.outcome), cache |-> try.cache]

\* CollaborativeFiltering.get_recommendations
CollabGetRecommendations(entry, user, limit, failAt) ==
    CollabCaught(CollabTry(entry, user, limit, failAt))

\* ---------------------------------------------------------- content filter
\* ContentBasedFiltering.genre_weights, in hundredths; .get(genre_id, 0.5)
genre_weights(genre_id) ==
    CASE genre_id \in {28, 12, 10752, 878, 14} -> 100
      [] genre_id \in {18, 10749, 53} -> 90
      [] genre_id \in {35, 10751} -> 80
      [] genre_id = 27 -> 70
      [] genre_id = 99 -> 60
      [] genre_id = 10770 -> 50
      [] OTHER -> 50

\* the keys of genre_mapping in _get_genre_ids and _get_genre_id_by_name
GenreNames ==
    {"Action", "Adventure", "Animation", "Comedy", "Crime", "Documentary",
     "Drama", "Family", "Fantasy", "History", "Horror", "Music", "Mystery",
     "Romance", "Science Fiction", "TV Movie", "Thriller", "War", "Western"}

genre_mapping(name) ==
    CASE name = "Action" -> 28          [] name = "Adventure" -> 12
      [] name = "Animation" -> 16       [] name = "Comedy" -> 35
      [] name = "Crime" -> 80           [] name = "Documentary" -> 99
      [] name = "Drama" -> 18           [] name = "Family" -> 10751
      [] name = "Fantasy" -> 14         [] name = "History" -> 36
      [] name = "Horror" -> 27          [] name = "Music" -> 10402
      [] name = "Mystery" -> 9648       [] name = "Romance" -> 10749
      [] name = "Science Fiction" -> 878 [] name = "TV Movie" -> 10770
      [] name = "Thriller" -> 53        [] name = "War" -> 10752
      [] name = "Western" -> 37

\* _get_genre_ids: the codes of the known names
_get_genre_ids(genre_names) ==
    { genre_mapping(g) : g \in Range(genre_names) \cap GenreNames }

\* profile[genre_id] = weight: a profile is a function genre code -> hundredths
ProfileSet(profile, genre_id, weight) ==
    [g \in DOMAIN profile \cup {genre_id} |->
        IF g = genre_id THEN weight ELSE profile[g]]

\* mutant: the genre's weight is not scaled by the rating
NormalizedWeight_Unscaled(genre_id, rating) == genre_weights(genre_id)

\* normalized_weight = weight * (rating / 5.0), rating = h / 2
NormalizedWeight(genre_id, rating) == (genre_weights(genre_id) * rating) \div 10

\* the inner loop of _build_user_profile over one rated movie's genre_ids
RECURSIVE ProfileAddGenres(_, _, _)
ProfileAddGenres(profile, genre_ids, rating) ==
    IF genre_ids = << >> THEN profile
    ELSE ProfileAddGenres(
            IF Head(genre_ids) \in DOMAIN profile
            THEN ProfileSet(profile, Head(genre_ids),
                    Max(profile[Head(genre_ids)],
                        NormalizedWeight(Head(genre_ids), rating)))
            ELSE ProfileSet(profile, Head(genre_ids),
                    NormalizedWeight(Head(genre_ids), rating)),
            Tail(genre_ids), rating)

\* the loop of _build_user_profile over the rating history
RECURSIVE ProfileAddRatings(_, _)
ProfileAddRatings(profile, rows) ==
    IF rows = << >> THEN profile
    ELSE ProfileAddRatings(
            ProfileAddGenres(profile, Movie(Head(rows).movie).genre_ids,
                             Head(rows).rating),
            Tail(rows))

\* the loop of _build_user_profile over the preferred genre names
RECURSIVE ProfileAddNames(_, _)
ProfileAddNames(profile, names) ==
    IF names = << >> THEN profile
    ELSE ProfileAddNames(
            IF Head(names) \in GenreNames
            THEN ProfileSet(profile, genre_mapping(Head(names)), 100)
            ELSE profile,
            Tail(names))

\* _build_user_profile(user_genres, user_ratings)
_build_user_profile(user_genres, user_ratings) ==
    ProfileAddRatings(ProfileAddNames(<< >>, user_genres), user_ratings)

\* 0.6 + 0.2 * min(popularity / 100, 1.0) + 0.2 * min(vote_average / 10, 1.0),
\* in thousandths
QualityBoost(movie) ==
    600 + 2 * Min(movie.popularity, 100) + 2 * Min(movie.vote_average, 100)

\* the genres of the movie that are in the profile (positions in genre_ids)
SharedGenres(user_profile, movie) ==
    { i \in DOMAIN movie.genre_ids : movie.genre_ids[i] \in DOMAIN user_profile }

\* base_score = similarity_sum / weight_sum as the exact pair (sum, weights):
\* hundredths * hundredths over hundredths; (0, 0) when no genre is shared
BaseScore(user_profile, movie) ==
    [similarity_sum |-> SumFn([i \in SharedGenres(user_profile, movie) |->
            user_profile[movie.genre_ids[i]] * genre_weights(movie.genre_ids[i])]),
     weight_sum |-> SumFn([i \in SharedGenres(user_profile, movie) |->
            genre_weights(movie.genre_ids[i])])]

\* min(final_score, 1.0) in 1e-5 units, from the base score
FinalScore(base, movie) ==
    IF base.weight_sum = 0 THEN 0
    ELSE Min((base.similarity_sum * QualityBoost(movie)) \div base.weight_sum, 100000)

\* _calculate_content_similarity(user_profile, movie)
_calculate_content_similarity(user_profile, movie) ==
    FinalScore(BaseScore(user_profile, movie), movie)

\* mutant: the comparison is turned round
FinalAboveTenth_Below(base, movie) ==
    base.weight_sum > 0
    /\ base.similarity_sum * QualityBoost(movie) < 10000 * base.weight_sum

\* final_score > 0.1 exactly, from the base score
FinalAboveTenth(base, movie) ==
    base.weight_sum > 0
    /\ base.similarity_sum * QualityBoost(movie) > 10000 * base.weight_sum

\* `if similarity_score > 0.1` on the value of _calculate_content_similarity
ContentKept(user_profile, movie) ==
    FinalAboveTenth(BaseScore(user_profile, movie), movie)

\* f"Similar to your preferred genres: {', '.join(user_genres)}"
ContentReason(user_genres) == <<"Similar to your preferred genres: ", user_genres>>

\* order_by('-popularity', '-vote_average'), then primary key
MovieBefore(a, b) ==
    \/ Movie(a).popularity > Movie(b).popularity
    \/ /\ Movie(a).popularity = Movie(b).popularity
       /\ \/ Movie(a).vote_average > Movie(b).vote_average
          \/ Movie(a).vote_average = Movie(b).vote_average /\ a < b

\* the rows S in the order of the relation before (a function on pairs)
RECURSIVE OrderedRows(_, _)
OrderedRows(S, before) ==
    IF S = {} THEN << >>
    ELSE <<CHOOSE x \in S : \A y \in S \ {x} : before[<<x, y>>]>>
         \o OrderedRows(S \ {CHOOSE x \in S : \A y \in S \ {x} : before[<<x, y>>]},
                        before)

\* mutant: the query does not ask for an overlap with the preferred genres
ContentCandidates_AnyGenre(preferred_genre_ids, excluded_movies, limit) ==
    Slice(OrderedRows(Movies \ excluded_movies,
                      [p \in Movies \X Movies |-> MovieBefore(p[1], p[2])]),
          limit * 3)

\* Movie.objects.filter(genre_ids__overlap=preferred_genre_ids)
\*      .exclude(id__in=excluded_movies).order_by(...)[:limit * 3]
\* (overlap: the two arrays share an element)
ContentCandidates(preferred_genre_ids, excluded_movies, limit) ==
    Slice(OrderedRows({ m \in Movies \ excluded_movies :
                            Range(Movie(m).genre_ids) \cap preferred_genre_ids # {} },
                      [p \in Movies \X Movies |-> MovieBefore(p[1], p[2])]),
          limit * 3)

\* lines 253-267: score the candidates, keep, sort, truncate
ContentRank(user_profile, movies, user_genres, limit) ==
    Slice(SortDesc(
        [i \in 1..Len(movies) |->
            Entry(movies[i], _calculate_content_similarity(user_profile, Movie(movies[i])),
                  ContentReason(user_genres))]),
        limit)

\* lines 228-267, with the profile built
ContentFromProfile(user_profile, user, limit) ==
    IF DOMAIN user_profile = {}
    THEN << >>
    ELSE ContentRank(
            user_profile,
            SelectSeq(ContentCandidates(_get_genre_ids(preferred_genres[user]),
                                        ExcludedMovies(user), limit),
                      LAMBDA m : ContentKept(user_profile, Movie(m))),
            preferred_genres[user], limit)

\* the try-body of ContentBasedFiltering.get_recommendations; user_ratings
\* are the user's ratings >= 4.0
ContentTry(user, limit, fails) ==
    IF fails THEN Raised
    ELSE Returned(ContentFromProfile(
            _build_user_profile(preferred_genres[user],
                SelectSeq(RatingRows(user), LAMBDA r : r.rating >= 8)),
            user, limit))

\* ContentBasedFiltering.get_recommendations: except Exception -> []
ContentGetRecommendations(user, limit, fails) ==
    Caught(ContentTry(user, limit, fails))

\* ------------------------------------------------------ popularity fallback
PopularityReason == <<"Popular movies trending now">>

\* mutant: popularity is not clamped by min(., 1.0)
PopularityBlend_Unclamped(movie) == 600 * movie.popularity + 400 * movie.vote_average

\* popularity_score * 0.6 + rating_score * 0.4, in 1e-5 units
PopularityBlend(movie) == 600 * Min(movie.popularity, 100) + 400 * movie.vote_average

\* order_by('-popularity'), then primary key
PopularBefore(a, b) ==
    \/ Movie(a).popularity > Movie(b).popularity
    \/ Movie(a).popularity = Movie(b).popularity /\ a < b

\* mutant: the query does not ask for a minimum vote count
PopularCandidates_AnyVoteCount(user) ==
    { m \in Movies \ ExcludedMovies(user) :
        /\ Movie(m).popularity > 10
        /\ Movie(m).vote_average > 60 }

\* the filter of _get_popularity_recommendations
PopularCandidates(user) ==
    { m \in Movies \ ExcludedMovies(user) :
        /\ Movie(m).popularity > 10
        /\ Movie(m).vote_average > 60
        /\ Movie(m).vote_count > 100 }

\* mutant: the entries carry the content filter's reason
PopularityEntries_ContentReason(movies) ==
    [i \in 1..Len(movies) |->
        Entry(movies[i],
              PopularityBlend(Movie(movies[i])) * config.POPULARITY_WEIGHT,
              ContentReason(<< >>))]

\* lines 446-460: one entry per movie of the query
PopularityEntries(movies) ==
    [i \in 1..Len(movies) |->
        Entry(movies[i],
              PopularityBlend(Movie(movies[i])) * config.POPULARITY_WEIGHT,
              PopularityReason)]

\* the try-body of _get_popularity_recommendations
PopularityTry(user, limit, fails) ==
    IF fails THEN Raised
    ELSE Returned(PopularityEntries(
            Slice(OrderedRows(PopularCandidates(user),
                              [p \in Movies \X Movies |-> PopularBefore(p[1], p[2])]),
                  limit)))

\* _get_popularity_recommendations: except Exception -> []
_get_popularity_recommendations(user, limit, fails) ==
    Caught(PopularityTry(user, limit, fails))

\* ------------------------------------------------------------ hybrid engine
\* score * self.config[...WEIGHT] on every entry of a strategy's result
Weighted(recs, weight) ==
    [i \in 1..Len(recs) |-> Entry(recs[i].movie, recs[i].score * weight, recs[i].reason)]

\* mutant: the collaborative filter runs for every user
RunsCollaborative_Always(user) == TRUE

\* `user.movie_ratings.count() >= self.config['MIN_RATING_COUNT']`
RunsCollaborative(user) == RatingCount(user) >= config.MIN_RATING_COUNT

\* mutant: every entry is kept, duplicates included
MergeOne_NoDedup(unique, e) == Append(unique, e)

\* mutant: a duplicate takes the reason of the entry with the higher score
MergeOne_ReasonOfMax(unique, e) ==
    IF \A i \in DOMAIN unique : unique[i].movie # e.movie
    THEN Append(unique, e)
    ELSE [i \in DOMAIN unique |->
            IF unique[i].movie = e.movie
            THEN Entry(e.movie, Max(unique[i].score, e.score),
                       IF e.score > unique[i].score THEN e.reason ELSE unique[i].reason)
            ELSE unique[i]]

\* lines 406-412 for one entry e against the dict `unique` (kept as the
\* sequence of its values in insertion order)
MergeOne(unique, e) ==
    IF \A i \in DOMAIN unique : unique[i].movie # e.movie
    THEN Append(unique, e)
    ELSE [i \in DOMAIN unique |->
            IF unique[i].movie = e.movie
            THEN Entry(e.movie, Max(unique[i].score, e.score), unique[i].reason)
            ELSE unique[i]]

\* unique_recommendations: one entry per movie id, in first-seen order, with
\* the maximum score and the first reason (lines 404-412)
RECURSIVE MergeDuplicates(_, _)
MergeDuplicates(all_recommendations, unique) ==
    IF all_recommendations = << >> THEN unique
    ELSE MergeDuplicates(Tail(all_recommendations),
                         MergeOne(unique, Head(all_recommendations)))

\* mutant: the merged entries are truncated in first-seen order
FinalRecommendations_Unsorted(all_recommendations, limit) ==
    Slice(MergeDuplicates(all_recommendations, << >>), limit)

\* lines 414-418: sort by score, truncate
FinalRecommendations(all_recommendations, limit) ==
    Slice(SortDesc(MergeDuplicates(all_recommendations, << >>)), limit)

\* the store failures a call may meet, one entry per strategy
FailInputs ==
    [collaborative : CollabFailPoints, content : BOOLEAN, popularity : BOOLEAN]
NoFailure == [collaborative |-> "ok", content |-> FALSE, popularity |-> FALSE]

\* lines 403-422: the answer of the call.  An exception inside the try-body
\* ends in `return []`; none leaves get_recommendations.
HybridAnswer(collab, content, popular, ran, limit) ==
    [recs |-> IF collab.outcome.raised \/ content.raised \/ popular.raised
              THEN << >>
              ELSE FinalRecommendations(
                     Weighted(collab.outcome.value, config.COLLABORATIVE_WEIGHT)
                     \o Weighted(content.value, config.CONTENT_BASED_WEIGHT)
                     \o popular.value, limit),
     escaped |-> FALSE,
     collabRan |-> ran.collaborative,
     contentRan |-> ran.content,
     popularityRan |-> ran.popularity,
     collaborative |-> Weighted(collab.outcome.value, config.COLLABORATIVE_WEIGHT),
     content |-> Weighted(content.value, config.CONTENT_BASED_WEIGHT),
     popularity |-> popular.value,
     cache |-> collab.cache]

\* `if len(all_recommendations) < limit`
NeedsPadding(collab, content, limit) ==
    /\ ~ collab.outcome.raised
    /\ ~ content.raised
    /\ Len(collab.outcome.value) + Len(content.value) < limit

\* lines 396-401: the popularity fallback fills the remaining slots
HybridAfterContent(collab, content, user, limit, fail) ==
    HybridAnswer(collab, content,
        IF NeedsPadding(collab, content, limit)
        THEN _get_popularity_recommendations(
                user, limit - (Len(collab.outcome.value) + Len(content.value)),
                fail.popularity)
        ELSE Returned(<< >>),
        [collaborative |-> RunsCollaborative(user),
         content |-> ~ collab.outcome.raised,
         popularity |-> NeedsPadding(collab, content, limit)],
        limit)

\* lines 388-394: the content filter, for limit // 2 results
HybridAfterCollab(collab, user, limit, fail) ==
    HybridAfterContent(collab,
        IF collab.outcome.raised THEN Returned(<< >>)
        ELSE ContentGetRecommendations(user, limit \div 2, fail.content),
        user, limit, fail)

\* HybridRecommendationEngine.get_recommendations(user, limit) against the
\* cache entry `entry`: the returned list, what each strategy contributed
\* (weighted), which strategies ran, and the cache afterwards.
HybridGetRecommendations(entry, user, limit, fail) ==
    HybridAfterCollab(
        IF RunsCollaborative(user)
        THEN CollabGetRecommendations(entry, user, limit \div 2, fail.collaborative)
        ELSE [outcome |-> Returned(<< >>), cache |-> entry],
        user, limit, fail)

\* ------------------------------------------------------------ store writes
\* update_or_create(user=user, movie=movie, defaults=validated_data)
UpdateOrCreateRating(rows, m, h) ==
    IF \E i \in DOMAIN rows : rows[i].movie = m
    THEN [i \in DOMAIN rows |->
            IF rows[i].movie = m THEN [movie |-> m, rating |-> h] ELSE rows[i]]
    ELSE Append(rows, [movie |-> m, rating |-> h])

\* --------------------------------------------------------- background tasks
\* HybridRecommendationEngine.get_recommendations, lines 420-422: an exception
\* in the try-body outside the strategies (the store cannot be reached while
\* the user's ratings are counted) is logged and [] is returned
HybridFailed(entry) == [recs |-> << >>, escaped |-> FALSE, cache |-> entry]

\* the list returned to the caller, whether an exception left the call, and
\* the cache afterwards
AnswerOf(answer) ==
    [recs |-> answer.recs, escaped |-> answer.escaped, cache |-> answer.cache]

\* HybridRecommendationEngine.get_recommendations as its callers see it
get_recommendations(entry, user, limit, fail, storeDown) ==
    IF storeDown THEN HybridFailed(entry)
    ELSE AnswerOf(HybridGetRecommendations(entry, user, limit, fail))

\* user=None of a general recommendation
NoUser == 0

\* Recommendation rows are counted per (user, movie, recommendation_type)
RecKeys == (Users \cup {NoUser}) \X Movies \X {"hybrid", "trending"}
NoRows == [k \in RecKeys |-> 0]

\* the movies of a list of (movie, score, reason) tuples
MoviesOf(recs) == [i \in 1..Len(recs) |-> recs[i].movie]

\* Recommendation.objects.filter(user=..., recommendation_type=...).delete()
DeleteRows(rows, user, type) ==
    [k \in RecKeys |-> IF k[1] = user /\ k[3] = type THEN 0 ELSE rows[k]]

\* how many rows with key k a bulk_create of one row per movie adds
Inserted(user, movies, type, k) ==
    IF k[1] = user /\ k[3] = type
    THEN Cardinality({ i \in DOMAIN movies : movies[i] = k[2] })
    ELSE 0

\* Recommendation.objects.bulk_create(recommendations)
InsertRows(rows, user, movies, type) ==
    [k \in RecKeys |-> rows[k] + Inserted(user, movies, type, k)]

\* unique_together = ['user', 'movie', 'recommendation_type']: the insert
\* would leave two rows with one key
BreaksUnique(rows, user, movies, type) ==
    \E k \in RecKeys : /\ Inserted(user, movies, type, k) > 0
                       /\ rows[k] + Inserted(user, movies, type, k) > 1

\* The runs of the tasks: UserRuns run generate_user_recommendations_task,
\* TrendingRuns run generate_trending_recommendations_task.
UserRuns == {1, 2}
TrendingRuns == {3, 4}

\* user_id arguments of generate_user_recommendations_task (0: all users)
TaskInputs == {0, 1}

\* the movies TMDb reports as trending and the sync stored (no data: FALSE)
TrendingInputs ==
    { [data |-> TRUE, movies |-> <<6, 1>>], [data |-> FALSE, movies |-> << >>] }

\* a run that has not started
IdleRun ==
    [pc |-> "idle", users |-> << >>, idx |-> 0, outcome |-> << >>,
     movies |-> << >>, storeDown |-> FALSE, escaped |-> FALSE]

\* `if user_id: users = filter(id=user_id) else: users with ratings [:100]`
TaskUsers(user_id) ==
    IF user_id # 0 THEN <<user_id>> ELSE Slice(AscSeq(UsersWithRatings), 100)

\* `for user in users`: the next user, or the end of the loop
NextUser(run) ==
    IF run.idx < Len(run.users)
    THEN [run EXCEPT !.idx = @ + 1, !.pc = "delete"]
    ELSE [run EXCEPT !.pc = "done"]

\* mutant: the per-user handler ends the task
AfterUserError_Abort(run) == [run EXCEPT !.outcome = Append(@, "error"), !.pc = "raised"]

\* lines 73-75: except Exception: log; continue
AfterUserError(run) == NextUser([run EXCEPT !.outcome = Append(@, "error")])

\* the end of the per-user try-body
AfterUserOk(run) == NextUser([run EXCEPT !.outcome = Append(@, "ok")])

\* lines 27-36: the task starts and the users query is evaluated; a failure
\* here reaches the outer handler, which raises
StartUserTask(w, user_id, fails) ==
    /\ workers[w].pc = "idle"
    /\ workers' = [workers EXCEPT ![w] =
            IF fails THEN [@ EXCEPT !.pc = "raised"]
            ELSE NextUser([@ EXCEPT !.users = TaskUsers(user_id)])]
    /\ UNCHANGED <<ratings, favorites, preferred_genres, config, cache, lastCall,
                   recommendations, taskAux>>

\* lines 40-44: the user's hybrid rows are deleted
ClearUserRecommendations(w, fails) ==
    /\ workers[w].pc = "delete"
    /\ IF fails
       THEN /\ workers' = [workers EXCEPT ![w] = AfterUserError(@)]
            /\ UNCHANGED recommendations
       ELSE /\ workers' = [workers EXCEPT ![w].pc = "create"]
            /\ recommendations' =
                  DeleteRows(recommendations, workers[w].users[workers[w].idx], "hybrid")
    /\ UNCHANGED <<ratings, favorites, preferred_genres, config, cache, lastCall,
                   taskAux>>

\* lines 63-66 with the engine's answer: bulk_create when the list is not
\* empty; the unique constraint or the store may refuse the insert
BulkCreateUser(w, user, answer, storeDown, fails) ==
    /\ cache' = answer.cache
    /\ IF answer.recs # << >>
          /\ (fails \/ BreaksUnique(recommendations, user, MoviesOf(answer.recs), "hybrid"))
       THEN /\ workers' = [workers EXCEPT ![w] =
                    AfterUserError([@ EXCEPT !.movies = MoviesOf(answer.recs),
                                             !.storeDown = storeDown,
                                             !.escaped = answer.escaped])]
            /\ UNCHANGED recommendations
       ELSE /\ workers' = [workers EXCEPT ![w] =
                    AfterUserOk([@ EXCEPT !.movies = MoviesOf(answer.recs),
                                          !.storeDown = storeDown,
                                          !.escaped = answer.escaped])]
            /\ recommendations' =
                  InsertRows(recommendations, user, MoviesOf(answer.recs), "hybrid")

\* the engine's limit in generate_user_recommendations_task
TASK_LIMIT == 20

\* lines 46-71: recommendations are generated and written for the user
GenerateUserRecommendations(w, storeDown, fails) ==
    /\ workers[w].pc = "create"
    /\ \E answer \in { get_recommendations(cache, workers[w].users[workers[w].idx],
                                           TASK_LIMIT, NoFailure, storeDown) } :
           BulkCreateUser(w, workers[w].users[workers[w].idx], answer, storeDown, fails)
    /\ UNCHANGED <<ratings, favorites, preferred_genres, config, lastCall, taskAux>>

\* lines 148-162: the trending movies are fetched and synced; without data
\* the task returns, an exception is raised again by the handler
FetchTrending(w, tmdb, fails) ==
    /\ workers[w].pc = "idle"
    /\ workers' = [workers EXCEPT ![w] =
            IF fails THEN [@ EXCEPT !.pc = "raised"]
            ELSE IF ~ tmdb.data THEN [@ EXCEPT !.pc = "done"]
            ELSE [@ EXCEPT !.pc = "delete", !.movies = tmdb.movies]]
    /\ UNCHANGED <<ratings, favorites, preferred_genres, config, cache, lastCall,
                   recommendations, taskAux>>

\* lines 178-182: the general trending rows are deleted
ClearTrending(w, fails) ==
    /\ workers[w].pc = "delete"
    /\ IF fails
       THEN /\ workers' = [workers EXCEPT ![w].pc = "raised"]
            /\ UNCHANGED recommendations
       ELSE /\ workers' = [workers EXCEPT ![w].pc = "create"]
            /\ recommendations' = DeleteRows(recommendations, NoUser, "trending")
    /\ UNCHANGED <<ratings, favorites, preferred_genres, config, cache, lastCall,
                   taskAux>>

\* lines 184-186: bulk_create of the new trending rows.  Whether the unique
\* constraint covers rows whose user is NULL depends on the database: with
\* `enforced` the insert of a second row for a key is refused.
CreateTrending(w, enforced, fails) ==
    /\ workers[w].pc = "create"
    /\ IF workers[w].movies # << >>
          /\ (fails \/ (enforced /\ BreaksUnique(recommendations, NoUser,
                                                 workers[w].movies, "trending")))
       THEN /\ workers' = [workers EXCEPT ![w].pc = "raised"]
            /\ UNCHANGED recommendations
       ELSE /\ workers' = [workers EXCEPT ![w].pc = "done"]
            /\ recommendations' =
                  InsertRows(recommendations, NoUser, workers[w].movies, "trending")
    /\ UNCHANGED <<ratings, favorites, preferred_genres, config, cache, lastCall,
                   taskAux>>

\* no task has run
TasksIdle ==
    /\ recommendations = NoRows
    /\ workers = [w \in UserRuns \cup TrendingRuns |-> IdleRun]

\* --------------------------------------- matrix computation, query by query
\* get_user_similarity_matrix reads the cache, then the ratings with one query
\* per user and per pair of users, then writes the cache.  Other requests run
\* between these steps.
Computers == {1, 2}
MaxWrites == 1

\* d[key] = value on a dict
DictSet(d, key, value) ==
    [k \in DOMAIN d \cup {key} |-> IF k = key THEN value ELSE d[k]]

\* an execution that has not begun
IdleComputation ==
    [pc |-> "idle", users |-> << >>, i |-> 0, j |-> 0, user_ratings |-> << >>,
     similar_users |-> << >>, similarity_matrix |-> << >>, result |-> << >>]

\* `for user in users_with_ratings`: the next user, or the end of the loop
NextRow(c) ==
    IF c.i < Len(c.users)
    THEN [c EXCEPT !.i = @ + 1, !.pc = "row"]
    ELSE [c EXCEPT !.pc = "set"]

\* lines 37-49: a hit returns the cached matrix, a miss evaluates the users
\* query and enters the loop
AfterLookup(c, entry) ==
    IF CacheHit(entry)
    THEN [c EXCEPT !.pc = "done", !.result = entry.matrix]
    ELSE NextRow([c EXCEPT !.users = AscSeq(UsersWithRatings), !.i = 0])

\* mutant: similar_users is not emptied for the next user
AfterUserRatings_KeepsNeighbors(c, user_ratings) ==
    IF Cardinality(DOMAIN user_ratings) < min_common_ratings
    THEN NextRow(c)
    ELSE [c EXCEPT !.user_ratings = user_ratings, !.j = 1, !.pc = "pair"]

\* lines 52-60: the ratings of the outer user are read
AfterUserRatings(c, user_ratings) ==
    IF Cardinality(DOMAIN user_ratings) < min_common_ratings
    THEN NextRow(c)
    ELSE [c EXCEPT !.user_ratings = user_ratings, !.similar_users = << >>,
                   !.j = 1, !.pc = "pair"]

\* lines 79-80: `if similarity > 0.1: similar_users[other_user.id] = similarity`
AddSimilar(similar_users, other, similarity) ==
    IF AboveThreshold(similarity)
    THEN DictSet(similar_users, other, SimMilli(similarity))
    ELSE similar_users

\* lines 63-80 for one other user, whose ratings are read now
PairResult(c, other, other_ratings) ==
    IF other = c.users[c.i] \/ Cardinality(DOMAIN other_ratings) < min_common_ratings
    THEN c.similar_users
    ELSE AddSimilar(c.similar_users, other,
                    _calculate_cosine_similarity(c.user_ratings, other_ratings))

\* the inner loop goes on, or line 82 stores the row and the outer loop goes on
AfterPair(c, similar_users) ==
    IF c.j < Len(c.users)
    THEN [c EXCEPT !.similar_users = similar_users, !.j = @ + 1]
    ELSE NextRow([c EXCEPT !.similar_users = similar_users,
                           !.similarity_matrix = DictSet(@, c.users[c.i], similar_users)])

\* a caller enters get_user_similarity_matrix: cache.get
CallGetMatrix(w) ==
    /\ computations[w].pc = "idle"
    /\ computations' = [computations EXCEPT ![w] = AfterLookup(@, cache)]
    /\ UNCHANGED <<ratings, favorites, preferred_genres, config, cache, lastCall,
                   writes, matrixAux>>

\* update_user_similarity_matrix_task, line 125: cache.delete
TaskDeleteMatrix(w) ==
    /\ computations[w].pc = "idle"
    /\ cache' = NoMatrix
    /\ computations' = [computations EXCEPT ![w].pc = "get"]
    /\ UNCHANGED <<ratings, favorites, preferred_genres, config, lastCall,
                   writes, matrixAux>>

\* update_user_similarity_matrix_task, lines 128-129: the task's own call
TaskGetMatrix(w) ==
    /\ computations[w].pc = "get"
    /\ computations' = [computations EXCEPT ![w] = AfterLookup(@, cache)]
    /\ UNCHANGED <<ratings, favorites, preferred_genres, config, cache, lastCall,
                   writes, matrixAux>>

\* lines 51-60: one iteration of the outer loop begins
ReadUserRatings(w) ==
    /\ computations[w].pc = "row"
    /\ computations' = [computations EXCEPT ![w] =
            AfterUserRatings(@, RatingDict(@.users[@.i]))]
    /\ UNCHANGED <<ratings, favorites, preferred_genres, config, cache, lastCall,
                   writes, matrixAux>>

\* lines 62-82: one iteration of the inner loop
CompareWithOther(w) ==
    /\ computations[w].pc = "pair"
    /\ computations' = [computations EXCEPT ![w] =
            AfterPair(@, PairResult(@, @.users[@.j], RatingDict(@.users[@.j])))]
    /\ UNCHANGED <<ratings, favorites, preferred_genres, config, cache, lastCall,
                   writes, matrixAux>>

\* lines 85-88: cache.set and return
SetMatrix(w) ==
    /\ computations[w].pc = "set"
    /\ cache' = StoreMatrix(computations[w].similarity_matrix).cache
    /\ computations' = [computations EXCEPT
            ![w].pc = "done", ![w].result = computations[w].similarity_matrix]
    /\ UNCHANGED <<ratings, favorites, preferred_genres, config, lastCall,
                   writes, matrixAux>>

\* MovieRatingView.post while executions are under way
RateDuringComputation(u, m, h) ==
    /\ writes < MaxWrites
    /\ ratings' = [ratings EXCEPT ![u] = UpdateOrCreateRating(@, m, h)]
    /\ writes' = writes + 1
    /\ UNCHANGED <<favorites, preferred_genres, config, cache, lastCall,
                   computations, matrixAux>>

\* no execution has begun
MatrixIdle ==
    /\ computations = [w \in Computers |-> IdleComputation]
    /\ writes = 0

\* ------------------------------------------ rating and favorite endpoints
MaxFavoriteId == 3

NoResponse == [op |-> "none", status |-> 0]

\* the movies of the user's UserFavorite rows
FavoriteMovies(rows, u) == { r.movie : r \in { r \in rows : r.user = u } }

\* MovieRatingSerializer: the rating field's validators and validate_rating,
\* 0.5 <= value <= 5.0 (half stars: 1..10)
ValidRating(h) == 1 <= h /\ h <= 10

\* the user has a MovieRating row for the movie
HasRating(u, m) == m \in RatedMovies(u)

\* MovieRatingView.post, line 583: `rating.created` on the MovieRating that
\* serializer.save() returned.  The model has no such attribute: the access
\* raises AttributeError and the request is answered with a server error.
RatingStatus(existed) == 500

\* MovieRatingView.post: an invalid rating and an unknown movie are answered
\* 400; otherwise update_or_create writes the rating, then line 583 runs
PostRating(u, m, h) ==
    /\ IF ValidRating(h) /\ m \in Movies
       THEN /\ ratings' = [ratings EXCEPT ![u] = UpdateOrCreateRating(@, m, h)]
            /\ response' = [op |-> "rate", user |-> u, movie |-> m, rating |-> h,
                            existed |-> HasRating(u, m),
                            status |-> RatingStatus(HasRating(u, m))]
       ELSE /\ UNCHANGED ratings
            /\ response' = [op |-> "rate", user |-> u, movie |-> m, rating |-> h,
                            existed |-> HasRating(u, m), status |-> 400]
    /\ UNCHANGED <<favorites, preferred_genres, config, cache, lastCall,
                   favoriteRows, nextId, apiAux>>

\* mutant: a favorite that exists is added again
GetOrCreateFavorite_AlwaysCreate(rows, u, m, id) ==
    rows \cup { [id |-> id, user |-> u, movie |-> m] }

\* UserFavorite.objects.get_or_create(user=user, movie=movie)
GetOrCreateFavorite(rows, u, m, id) ==
    IF \E r \in rows : r.user = u /\ r.movie = m
    THEN rows
    ELSE rows \cup { [id |-> id, user |-> u, movie |-> m] }

\* UserFavoritesView.post / UserFavoriteSerializer.create: 400 for an unknown
\* movie and for a movie that is a favorite already, 201 otherwise
PostFavorite(u, m) ==
    /\ nextId <= MaxFavoriteId
    /\ IF m \notin Movies
       THEN /\ UNCHANGED <<favoriteRows, favorites, nextId>>
            /\ response' = [op |-> "favorite", user |-> u, movie |-> m, status |-> 400]
       ELSE /\ favoriteRows' = GetOrCreateFavorite(favoriteRows, u, m, nextId)
            /\ favorites' = [favorites EXCEPT ![u] = FavoriteMovies(favoriteRows', u)]
            /\ nextId' = IF favoriteRows' = favoriteRows THEN nextId ELSE nextId + 1
            /\ response' = [op |-> "favorite", user |-> u, movie |-> m,
                            status |-> IF m \in FavoriteMovies(favoriteRows, u)
                                       THEN 400 ELSE 201]
    /\ UNCHANGED <<ratings, preferred_genres, config, cache, lastCall, apiAux>>

\* UserFavorite.objects.get(id=pk, user=request.user)
OwnFavorite(rows, u, pk) == { r \in rows : r.id = pk /\ r.user = u }

\* RemoveFavoriteView.delete: 204 and the row is deleted, or 404
DeleteFavorite(u, pk) ==
    /\ favoriteRows' = favoriteRows \ OwnFavorite(favoriteRows, u, pk)
    /\ favorites' = [v \in Users |-> FavoriteMovies(favoriteRows', v)]
    /\ response' = [op |-> "remove", user |-> u, pk |-> pk,
                    status |-> IF OwnFavorite(favoriteRows, u, pk) = {}
                               THEN 404 ELSE 204]
    /\ UNCHANGED <<ratings, preferred_genres, config, cache, lastCall, nextId, apiAux>>

\* no request was answered and no favorite exists
ApiIdle ==
    /\ favoriteRows = {}
    /\ nextId = 1
    /\ response = NoResponse

\* ------------------------------------------------------ TMDb request
\* the data a successful request returns
Pages == {"page_a", "page_b"}

\* _make_request's None
None == "None"

\* what session.get does on one attempt: it raises, or it returns a response
\* with a status, a Retry-After header and a body
Raises == {"Timeout", "ConnectionError", "RequestException"}
Response(status, retry_after, body) ==
    [raised |-> "none", status |-> status, retry_after |-> retry_after, body |-> body]
Raise(exception) ==
    [raised |-> exception, status |-> 0, retry_after |-> "absent", body |-> "none"]
Answers ==
    { Raise(e) : e \in Raises }
    \cup { Response(200, "absent", b) : b \in Pages \cup {"failure", "invalid"} }
    \cup { Response(429, h, "failure") : h \in {"absent", "seconds", "date"} }
    \cup { Response(st, "absent", "failure") : st \in {404, 500, 503} }

\* int(response.headers.get('Retry-After', 60)): the default or a number of
\* seconds parses, an HTTP date raises ValueError
ParsesAsInt(retry_after) == retry_after \in {"absent", "seconds"}

\* what an attempt ends in
Continue == [step |-> "continue", value |-> None]
Return(value) == [step |-> "return", value |-> value]
Throw(exception) == [step |-> "raise", value |-> exception]

\* the body of the try block for one answer of session.get
TryBlock(answer, attempt, retries) ==
    IF answer.raised # "none" THEN Throw(answer.raised)
    ELSE IF answer.status = 429 /\ ~ ParsesAsInt(answer.retry_after)
    THEN Throw("ValueError")
    ELSE IF answer.status = 429 /\ attempt < retries - 1 THEN Continue
    ELSE IF answer.status >= 400 THEN Throw("HTTPError")
    ELSE IF answer.body = "invalid" THEN Throw("JSONDecodeError")
    ELSE IF answer.body = "failure" THEN Return(None)
    ELSE Return(answer.body)

\* the except clauses: what the attempt ends in once the try block raised
Handlers(exception, answer, attempt, retries) ==
    IF exception \in {"Timeout", "ConnectionError"}
    THEN IF attempt = retries - 1 THEN Return(None) ELSE Continue
    ELSE IF exception = "HTTPError"
    THEN IF answer.status \in {500, 502, 503, 504}
         THEN IF attempt = retries - 1 THEN Return(None) ELSE Continue
         ELSE Return(None)
    ELSE Return(None)

\* one pass of the loop body
AttemptOutcome(answer, attempt, retries) ==
    LET tried == TryBlock(answer, attempt, retries)
    IN  IF tried.step = "raise"
        THEN Handlers(tried.value, answer, attempt, retries)
        ELSE tried

NoFetch == [pc |-> "idle", retries |-> 0, attempt |-> 0, answers |-> << >>,
            result |-> None]

\* _make_request(endpoint, retries = n) is entered: without an API key, or
\* with an empty range of attempts, it returns None at once
CallMakeRequest(n, api_key) ==
    /\ fetch.pc = "idle"
    /\ fetch' = [fetch EXCEPT !.retries = n,
                              !.pc = IF api_key /\ n > 0 THEN "loop" ELSE "done"]
    /\ UNCHANGED <<ratings, favorites, preferred_genres, config, cache, lastCall, fetchAux>>

\* one attempt: session.get answers, the loop body runs, and the loop either
\* goes on to the next attempt or the function returns
Attempt(answer) ==
    /\ fetch.pc = "loop"
    /\ LET outcome == AttemptOutcome(answer, fetch.attempt, fetch.retries)
       IN  fetch' = [fetch EXCEPT
                !.answers = Append(@, answer),
                !.attempt = @ + 1,
                !.result = outcome.value,
                !.pc = IF outcome.step = "continue" /\ fetch.attempt + 1 < fetch.retries
                       THEN "loop" ELSE "done"]
    /\ UNCHANGED <<ratings, favorites, preferred_genres, config, cache, lastCall, fetchAux>>

FetchIdle == fetch = NoFetch

\* ------------------------------------------------ Python float arithmetic
\* A Python float is an IEEE 754 binary64 number; the similarities and the
\* ratings are never negative. Such a float is n * 2^e with n = 0 or
\* 2^52 <= n < 2^53. The integer n is a sequence of limbs of LimbBits bits,
\* lowest limb first, without leading zero limbs. Every operation returns
\* the exact result rounded to the nearest float, ties to the even one.
Precision == 53
LimbBits == 14
Base == 2^LimbBits

RECURSIVE Strip(_)
Strip(a) ==
    IF a = << >> THEN << >>
    ELSE IF a[Len(a)] = 0 THEN Strip(SubSeq(a, 1, Len(a) - 1))
    ELSE a

Rest(a) == IF a = << >> THEN << >> ELSE Tail(a)
Low(a) == IF a = << >> THEN 0 ELSE Head(a)

RECURSIVE BigAddCarry(_, _, _)
BigAddCarry(a, b, carry) ==
    IF a = << >> /\ b = << >>
    THEN IF carry = 0 THEN << >> ELSE <<carry>>
    ELSE <<(Low(a) + Low(b) + carry) % Base>>
         \o BigAddCarry(Rest(a), Rest(b), (Low(a) + Low(b) + carry) \div Base)

BigAdd(a, b) == BigAddCarry(a, b, 0)

\* a - b for a >= b
RECURSIVE BigSubBorrow(_, _, _)
BigSubBorrow(a, b, borrow) ==
    IF a = << >> THEN << >>
    ELSE <<(Base + Head(a) - Low(b) - borrow) % Base>>
         \o BigSubBorrow(Tail(a), Rest(b),
                         IF Head(a) - Low(b) - borrow < 0 THEN 1 ELSE 0)

BigSub(a, b) == Strip(BigSubBorrow(a, b, 0))

RECURSIVE GeqFrom(_, _, _)
GeqFrom(a, b, i) ==
    IF i = 0 THEN TRUE
    ELSE IF a[i] # b[i] THEN a[i] > b[i]
    ELSE GeqFrom(a, b, i - 1)

\* a >= b
BigGeq(a, b) ==
    IF Len(a) # Len(b) THEN Len(a) > Len(b) ELSE GeqFrom(a, b, Len(a))

RECURSIVE BigMulSmall(_, _, _)
BigMulSmall(a, k, carry) ==
    IF a = << >>
    THEN IF carry = 0 THEN << >> ELSE <<carry>>
    ELSE <<(Head(a) * k + carry) % Base>>
         \o BigMulSmall(Tail(a), k, (Head(a) * k + carry) \div Base)

ShiftLimb(a) == IF a = << >> THEN << >> ELSE <<0>> \o a

RECURSIVE BigMulLimbs(_, _)
BigMulLimbs(a, b) ==
    IF b = << >> THEN << >>
    ELSE BigAdd(BigMulSmall(a, Head(b), 0), ShiftLimb(BigMulLimbs(a, Tail(b))))

BigMul(a, b) == Strip(BigMulLimbs(a, b))

\* 2^k
BigPow2(k) == [i \in 1..(k \div LimbBits) |-> 0] \o <<2^(k % LimbBits)>>

RECURSIVE SmallBitLen(_)
SmallBitLen(x) == IF x = 0 THEN 0 ELSE 1 + SmallBitLen(x \div 2)

BitLen(a) ==
    IF a = << >> THEN 0 ELSE LimbBits * (Len(a) - 1) + SmallBitLen(a[Len(a)])

\* a * 2^k
BigShl(a, k) == BigMul(a, BigPow2(k))

\* a \div 2^k for k < LimbBits
ShrBits(a, k) ==
    Strip([i \in 1..Len(a) |->
            (a[i] \div 2^k)
            + (IF i < Len(a) THEN (a[i + 1] % 2^k) * 2^(LimbBits - k) ELSE 0)])

\* a \div 2^k
BigShr(a, k) ==
    IF Len(a) <= k \div LimbBits THEN << >>
    ELSE ShrBits(SubSeq(a, (k \div LimbBits) + 1, Len(a)), k % LimbBits)

\* a / 2^k rounded to the nearest integer, ties to even, given the floor q
\* and the remainder
RoundUp(q, remainder, half) ==
    IF remainder = half THEN Low(q) % 2 = 1
    ELSE BigGeq(remainder, half)

RoundedShift(a, q, k) ==
    IF RoundUp(q, BigSub(a, BigShl(q, k)), BigPow2(k - 1))
    THEN BigAdd(q, <<1>>) ELSE q

FloatZero == [n |-> << >>, e |-> 0]

\* rounded /2^k of n * 2^e, once the rounded integer q is known
Renormalized(q, e) ==
    IF BitLen(q) > Precision
    THEN [n |-> BigShr(q, 1), e |-> e + 1]
    ELSE [n |-> q, e |-> e]

\* the float nearest to n * 2^e, n having len bits
RoundAt(n, e, len) ==
    IF len = 0 THEN FloatZero
    ELSE IF len <= Precision
    THEN [n |-> BigShl(n, Precision - len), e |-> e - (Precision - len)]
    ELSE CHOOSE f \in { Renormalized(q, e + len - Precision) :
                        q \in { RoundedShift(n, s, len - Precision) :
                                s \in {BigShr(n, len - Precision)} } } : TRUE

RoundToFloat(n, e) ==
    CHOOSE f \in { RoundAt(v, e, BitLen(v)) : v \in {n} } : TRUE

\* x * y
FloatMul(x, y) == RoundToFloat(BigMul(x.n, y.n), x.e + y.e)

\* x + y
AddAt(x, y, e) == RoundToFloat(BigAdd(BigShl(x.n, x.e - e), BigShl(y.n, y.e - e)), e)
FloatAdd(x, y) ==
    IF x.n = << >> THEN y
    ELSE IF y.n = << >> THEN x
    ELSE AddAt(x, y, IF x.e < y.e THEN x.e ELSE y.e)

\* long division, bit by bit. The quotient q so far and the remainder r,
\* after r was compared with the divisor d:
DivCompare(q, r, d) ==
    IF BigGeq(r, d)
    THEN [q |-> BigAdd(q, <<1>>), r |-> BigSub(r, d), d |-> d]
    ELSE [q |-> q, r |-> r, d |-> d]

\* one more bit of the quotient
DivBit(s) ==
    CHOOSE t \in { DivCompare(q2, r2, s.d) :
                   q2 \in {BigAdd(s.q, s.q)}, r2 \in {BigAdd(s.r, s.r)} } : TRUE

\* F applied twice
Twice(F(_), s) == CHOOSE t \in { F(u) : u \in {F(s)} } : TRUE
DivBits2(s) == Twice(DivBit, s)
DivBits4(s) == Twice(DivBits2, s)
DivBits8(s) == Twice(DivBits4, s)
DivBits16(s) == Twice(DivBits8, s)
DivBits32(s) == Twice(DivBits16, s)

\* Precision + 3 more bits of the quotient
DivBits56(s) ==
    CHOOSE t \in { DivBits8(v) : v \in { DivBits16(u) : u \in {DivBits32(s)} } } : TRUE

\* the quotient's bits and a last bit that says whether anything is left
WithSticky(qr) == BigAdd(BigAdd(qr.q, qr.q), IF qr.r = << >> THEN << >> ELSE <<1>>)

\* x / y, y # 0: the quotient is worked out to three bits more than a float
\* holds, and rounded
FloatDiv(x, y) ==
    IF x.n = << >> THEN FloatZero
    ELSE RoundToFloat(
            WithSticky(CHOOSE qr \in { DivBits56(s) : s \in {DivCompare(<< >>, x.n, y.n)} } : TRUE),
            x.e - y.e - (Precision + 3) - 1)

\* x <= y, exactly, for any n * 2^e
LeqAt(x, y, e) == BigGeq(BigShl(y.n, y.e - e), BigShl(x.n, x.e - e))
FloatLeq(x, y) == LeqAt(x, y, IF x.e < y.e THEN x.e ELSE y.e)

\* float(h / 2) for a rating of h half stars
FloatOfRating(h) == RoundToFloat(<<h>>, -1)

\* ------------------------------------------------------- predicted rating
\* similarities _calculate_cosine_similarity returns:
\* 0.8930682225913255, of {1: 5.0, 2: 4.5, 3: 4.0, 4: 5.0, 5: 3.5} and the
\* same ratings with 6: 5.0 added (Scenario A)
SimilarityA == [n |-> <<3337, 15504, 60, 1829>>, e |-> -53]
\* 0.6797066231056693, of {1: 2.5, 2: 2.5, 3: 5.0, 4: 4.0, 5: 4.5} and
\* {1: 3.5, 2: 5.0, 3: 0.5, 4: 4.0, 5: 2.0, 6: 3.5}
SimilarityB == [n |-> <<8541, 10894, 641, 1392>>, e |-> -53]
\* 0.4184306096405652, of {1: 4.0, 2: 5.0, 3: 4.5, 4: 2.0, 5: 2.5} and
\* {1: 1.0, 2: 1.0, 3: 1.0, 4: 5.0, 5: 1.0, 6: 5.0}
SimilarityC == [n |-> <<3308, 14349, 14610, 1713>>, e |-> -54]

SimilarityChoices == {SimilarityA, SimilarityB, SimilarityC}

\* a neighbor's rating of the movie in half stars; 0: the neighbor has no
\* rating of the movie
NotRated == 0
NeighborRatings == {NotRated, 6, 7, 10}

\* abs(similarity): the floats here carry no sign, a similarity in the
\* matrix is above 0.1
FloatAbs(x) == x

\* movie_scores[movie_id]['weighted_sum'] += rating.rating * similarity
\* mutant: the rating is not weighted
WeightedSum_Unweighted(weighted_sum, rating, similarity) ==
    FloatAdd(weighted_sum, rating)

WeightedSum(weighted_sum, rating, similarity) ==
    FloatAdd(weighted_sum, FloatMul(rating, similarity))

\* movie_scores[movie_id]['weight_sum'] += abs(similarity)
WeightSum(weight_sum, similarity) == FloatAdd(weight_sum, FloatAbs(similarity))

\* movie_scores has no entry for the movie, no neighbor met
NoPrediction ==
    [pc |-> "loop", neighbors |-> << >>, weighted_sum |-> FloatZero,
     weight_sum |-> FloatZero, listed |-> FALSE, score |-> FloatZero]

\* one pass of the loop over similarity_matrix[user.id].items(), seen from one
\* movie the user did not rate: the neighbor's rating of it, if there is one,
\* is added to the movie's sums
ScoreNeighbor(similarity, h) ==
    /\ prediction.pc = "loop"
    /\ Len(prediction.neighbors) < MaxNeighbors
    /\ \E ws \in {IF h = NotRated THEN prediction.weighted_sum
                  ELSE WeightedSum(prediction.weighted_sum, FloatOfRating(h), similarity)},
          w \in {IF h = NotRated THEN prediction.weight_sum
                 ELSE WeightSum(prediction.weight_sum, similarity)} :
        prediction' = [prediction EXCEPT
            !.neighbors = Append(@, [similarity |-> similarity, rating |-> h]),
            !.weighted_sum = ws,
            !.weight_sum = w]
    /\ UNCHANGED <<ratings, favorites, preferred_genres, config, cache, lastCall, predictAux>>

\* if scores['weight_sum'] > 0: predicted_rating = weighted_sum / weight_sum
PredictRating ==
    /\ prediction.pc = "loop"
    /\ IF prediction.weight_sum.n # << >>
       THEN \E predicted_rating \in {FloatDiv(prediction.weighted_sum, prediction.weight_sum)} :
                prediction' = [prediction EXCEPT !.pc = "done", !.listed = TRUE,
                                                 !.score = predicted_rating]
       ELSE prediction' = [prediction EXCEPT !.pc = "done"]
    /\ UNCHANGED <<ratings, favorites, preferred_genres, config, cache, lastCall, predictAux>>

PredictIdle == prediction = NoPrediction

\* ------------------------------------------- cosine similarity in floats
\* The square root of an integer, digit by digit: n is what is left of the
\* radicand, res the root so far, bit the power of 4 that is tried, sum is
\* res + bit.
SqrtCompare(n, res, bit, sum) ==
    IF BigGeq(n, sum)
    THEN [n |-> BigSub(n, sum), res |-> BigAdd(BigShr(res, 1), bit), bit |-> BigShr(bit, 2)]
    ELSE [n |-> n, res |-> BigShr(res, 1), bit |-> BigShr(bit, 2)]

\* one more bit of the root
SqrtBit(s) ==
    CHOOSE t \in { SqrtCompare(s.n, s.res, s.bit, sum) : sum \in {BigAdd(s.res, s.bit)} } : TRUE

SqrtBits2(s) == Twice(SqrtBit, s)
SqrtBits4(s) == Twice(SqrtBits2, s)
SqrtBits8(s) == Twice(SqrtBits4, s)
SqrtBits16(s) == Twice(SqrtBits8, s)
SqrtBits32(s) == Twice(SqrtBits16, s)

\* the bits of the root of a radicand below 2^112
SqrtBits56(s) ==
    CHOOSE t \in { SqrtBits8(v) : v \in { SqrtBits16(u) : u \in {SqrtBits32(s)} } } : TRUE

\* the square root of n * 2^e for an even e: the root's bits and a last bit
\* that says whether anything is left, rounded
SqrtAt(n, e) ==
    RoundToFloat(
        CHOOSE r \in { BigAdd(BigAdd(s.res, s.res), IF s.n = << >> THEN << >> ELSE <<1>>) :
                       s \in { SqrtBits56([n |-> n, res |-> << >>, bit |-> BigPow2(110)]) } } : TRUE,
        (e \div 2) - 1)

\* x ** 0.5: the C library's pow returns the correctly rounded square root
\* for the sums of squared ratings
FloatSqrt(x) ==
    IF x.n = << >> THEN FloatZero
    ELSE IF x.e % 2 = 0
    THEN SqrtAt(BigShl(x.n, 58), x.e - 58)
    ELSE SqrtAt(BigShl(x.n, 57), x.e - 57)

\* the float k / 4. Products and squares of ratings are whole quarters, and
\* so are their sums, which sum() therefore adds without rounding.
FloatOfQuarters(k) == RoundToFloat(Strip(<<k>>), -2)

\* the literals 0.1 and 1.0
FloatTenth == [n |-> <<6554, 9830, 6553, 1638>>, e |-> -56]
FloatOne == RoundToFloat(<<1>>, 0)

\* dot_product / (norm1 * norm2)
Quotient(dot_product, norm1, norm2) ==
    IF norm1.n = << >> \/ norm2.n = << >> THEN FloatZero
    ELSE FloatDiv(dot_product, FloatMul(norm1, norm2))

\* _calculate_cosine_similarity on Python floats; the rating dicts map a
\* movie to half stars
FloatCosine(ratings1, ratings2) ==
    IF Cardinality(DOMAIN ratings1 \cap DOMAIN ratings2) < min_common_ratings
    THEN FloatZero
    ELSE Quotient(
            FloatOfQuarters(SumFn([m \in DOMAIN ratings1 \cap DOMAIN ratings2 |->
                                      ratings1[m] * ratings2[m]])),
            FloatSqrt(FloatOfQuarters(SumFn([m \in DOMAIN ratings1 |->
                                                ratings1[m] * ratings1[m]]))),
            FloatSqrt(FloatOfQuarters(SumFn([m \in DOMAIN ratings2 |->
                                                ratings2[m] * ratings2[m]]))))

\* mutant: every similarity is stored
StoresSimilarity_Any(similarity) == TRUE

\* `if similarity > 0.1`
StoresSimilarity(similarity) ==
    similarity.n # << >> /\ ~ FloatLeq(similarity, FloatTenth)

\* no pair has been compared
NoPair ==
    [compared |-> FALSE, user |-> 0, other |-> 0, user_ratings |-> << >>,
     other_ratings |-> << >>, computed |-> FALSE, similarity |-> FloatZero,
     stored |-> FALSE]

\* the pair was passed over by a `continue`
Skipped(user, other, user_ratings, other_ratings) ==
    [compared |-> TRUE, user |-> user, other |-> other, user_ratings |-> user_ratings,
     other_ratings |-> other_ratings, computed |-> FALSE, similarity |-> FloatZero,
     stored |-> FALSE]

\* lines 74-80: the similarity is computed, and stored when it is above 0.1
Compared(user, other, user_ratings, other_ratings, similarity) ==
    [compared |-> TRUE, user |-> user, other |-> other, user_ratings |-> user_ratings,
     other_ratings |-> other_ratings, computed |-> TRUE, similarity |-> similarity,
     stored |-> StoresSimilarity(similarity)]

\* lines 56-80 of get_user_similarity_matrix for one user and one other user;
\* one pair is followed
ComparePair(user, other, user_ratings, other_ratings) ==
    /\ ~ cosine.compared
    /\ IF \/ Cardinality(DOMAIN user_ratings) < min_common_ratings
          \/ other = user
          \/ Cardinality(DOMAIN other_ratings) < min_common_ratings
       THEN cosine' = Skipped(user, other, user_ratings, other_ratings)
       ELSE \E similarity \in { FloatCosine(user_ratings, other_ratings) } :
               cosine' = Compared(user, other, user_ratings, other_ratings, similarity)
    /\ UNCHANGED <<ratings, favorites, preferred_genres, config, cache, lastCall,
                   cosineAux>>

CosineIdle == cosine = NoPair

\* ---------------------------------------------------- merge, one list
\* no list has been merged
NoMerge == [done |-> FALSE, all_recommendations |-> << >>, limit |-> 0, final |-> << >>]

\* lines 403-418 of HybridRecommendationEngine.get_recommendations on one
\* list of weighted entries
MergeAndSort(all_recommendations, limit) ==
    /\ ~ merged.done
    /\ merged' = [done |-> TRUE, all_recommendations |-> all_recommendations,
                  limit |-> limit,
                  final |-> FinalRecommendations(all_recommendations, limit)]
    /\ UNCHANGED <<ratings, favorites, preferred_genres, config, cache, lastCall,
                   mergeAux>>

MergeIdle == merged = NoMerge

\* ------------------------------------------------- content score, one row
\* Movie rows the content filter may meet: the catalog's, and rows of low
\* and of high popularity with genres of different weights
ContentRows ==
    { Movie(m) : m \in 1..6 }
    \cup { [id |-> 7, popularity |-> 0, vote_average |-> 0, vote_count |-> 0,
            genre_ids |-> <<99, 18>>],
           [id |-> 8, popularity |-> 0, vote_average |-> 0, vote_count |-> 0,
            genre_ids |-> <<99, 18, 35>>],
           [id |-> 9, popularity |-> 300, vote_average |-> 100, vote_count |-> 9000,
            genre_ids |-> <<18, 35, 99>>] }

\* user.preferred_genres ("Polka" is no key of genre_mapping)
GenreInputs ==
    { << >>, <<"Drama">>, <<"Comedy", "Polka">>, <<"Documentary", "Science Fiction">>,
      <<"Action">>, <<"Polka">>, <<"Documentary">>,
      <<"Drama", "Comedy", "Documentary">> }

\* the user's MovieRating rows
HistoryInputs ==
    { << >>,
      << [movie |-> 3, rating |-> 8] >>,
      << [movie |-> 3, rating |-> 8], [movie |-> 4, rating |-> 8] >>,
      << [movie |-> 5, rating |-> 8], [movie |-> 4, rating |-> 9] >>,
      << [movie |-> 4, rating |-> 10], [movie |-> 3, rating |-> 8],
         [movie |-> 5, rating |-> 6] >>,
      << [movie |-> 2, rating |-> 9], [movie |-> 1, rating |-> 7] >> }

NoCandidate ==
    [scored |-> FALSE, user_genres |-> << >>, user_ratings |-> << >>,
     user_profile |-> << >>, movie |-> Movie(0), kept |-> FALSE, score |-> 0]

\* lines 219-263 for one row of the query at line 247: the profile is built
\* from the preferred genres and the ratings >= 4.0, the row overlaps the
\* preferred genre codes and is no movie the user rated, it is scored, and
\* it is appended if the score is above 0.1
ScoreCandidate(user_genres, history, movie) ==
    /\ \E user_profile \in
            { _build_user_profile(user_genres,
                  SelectSeq(history, LAMBDA r : r.rating >= 8)) } :
          /\ DOMAIN user_profile # {}
          /\ Range(movie.genre_ids) \cap _get_genre_ids(user_genres) # {}
          /\ \A i \in DOMAIN history : history[i].movie # movie.id
          /\ candidate' =
                [scored |-> TRUE, user_genres |-> user_genres,
                 user_ratings |-> SelectSeq(history, LAMBDA r : r.rating >= 8),
                 user_profile |-> user_profile, movie |-> movie,
                 kept |-> ContentKept(user_profile, movie),
                 score |-> _calculate_content_similarity(user_profile, movie)]
    /\ UNCHANGED <<ratings, favorites, preferred_genres, config, cache, lastCall, contentAux>>

ContentIdle == candidate = NoCandidate

\* ------------------------------------ recommendation rows and their caches
\* Time is counted in days.  A Recommendation row is (user, movie,
\* recommendation_type, expires_at); expires_at is NULL or a day.
MaxTime == 8

NoExpiry == [null |-> TRUE, at |-> 0]
ExpiresAt(t) == [null |-> FALSE, at |-> t]

Row(user, movie, type, expires_at) ==
    [user |-> user, movie |-> movie, type |-> type, expires_at |-> expires_at]

\* mutant: a row that expires at this very moment counts as expired
Expired_OrNow(row, now) == ~ row.expires_at.null /\ row.expires_at.at <= now

\* filter(expires_at__lt=now): a NULL expires_at is less than nothing
Expired(row, now) == ~ row.expires_at.null /\ row.expires_at.at < now

\* cleanup_expired_cache_task, lines 91-95: the expired rows are deleted
DeleteExpired(rows, now) == { r \in rows : ~ Expired(r, now) }

\* expires_at=timezone.now() + timedelta(days=7)
HYBRID_DAYS == 7

\* lines 50-61: one row per tuple of the engine's answer
NewHybridRows(user, movies, now) ==
    { Row(user, movies[i], "hybrid", ExpiresAt(now + HYBRID_DAYS)) : i \in DOMAIN movies }

\* unique_together: two rows of the batch have one key
BatchBreaksUnique(movies) == Cardinality(Range(movies)) # Len(movies)

\* str(limit) in the cache key f"user_recommendations_{user.id}_{limit}"
LimitText(limit) ==
    CASE limit = 2 -> "2"
      [] limit = 3 -> "3"
      [] OTHER -> "20"

\* the key of a cached response
ResponseKey(user, text) == [user |-> user, limit |-> text]

\* cache.set(key, data, 600)
CacheSet(entries, key, data) ==
    { e \in entries : e.key # key } \cup { [key |-> key, data |-> data] }

\* cache.delete(key): the entry stored under exactly this key is removed
CacheDelete(entries, key) == { e \in entries : e.key # key }

\* cache.get(key): the entry's data, << >> when there is no entry
CacheGet(entries, key) ==
    IF \E e \in entries : e.key = key
    THEN (CHOOSE e \in entries : e.key = key).data
    ELSE << >>

\* one recommendation of the endpoint's answer
ViewEntry(movie, type) == [movie |-> movie, type |-> type]
ViewEntries(movies, type) == [i \in 1..Len(movies) |-> ViewEntry(movies[i], type)]

\* PersonalizedRecommendationsView._get_genre_based_recommendations
GenreBased(user_genres, limit) ==
    IF _get_genre_ids(user_genres) = {} THEN << >>
    ELSE ViewEntries(
            Slice(OrderedRows({ m \in Movies : Range(Movie(m).genre_ids)
                                               \cap _get_genre_ids(user_genres) # {} },
                              [p \in Movies \X Movies |-> MovieBefore(p[1], p[2])]),
                  limit),
            "genre_based")

\* the genre_ids of the favorite movies
FavoriteGenres(user_favorites) == UNION { Range(Movie(m).genre_ids) : m \in user_favorites }

\* PersonalizedRecommendationsView._get_similar_recommendations
SimilarToFavorites(user_favorites, limit) ==
    IF FavoriteGenres(user_favorites) = {} THEN << >>
    ELSE ViewEntries(
            Slice(OrderedRows({ m \in Movies \ user_favorites :
                                  Range(Movie(m).genre_ids)
                                  \cap FavoriteGenres(user_favorites) # {} },
                              [p \in Movies \X Movies |-> PopularBefore(p[1], p[2])]),
                  limit),
            "similar")

\* PersonalizedRecommendationsView._get_popular_recommendations
PopularForView(limit) ==
    ViewEntries(
        Slice(OrderedRows({ m \in Movies : /\ Movie(m).popularity > 10
                                           /\ Movie(m).vote_average > 60 },
                          [p \in Movies \X Movies |-> PopularBefore(p[1], p[2])]),
              limit),
        "popular")

\* the genre-based and the similar recommendations, each at most limit // 2
PreferenceBased(user, limit) ==
    (IF preferred_genres[user] # << >>
     THEN GenreBased(preferred_genres[user], limit \div 2) ELSE << >>)
    \o (IF favorites[user] # {}
        THEN SimilarToFavorites(favorites[user], limit \div 2) ELSE << >>)

\* the popular movies that fill the list up to the limit
FilledUp(recs, limit) ==
    IF Len(recs) < limit
    THEN recs \o PopularForView(limit - Len(recs))
    ELSE recs

\* PersonalizedRecommendationsView._generate_recommendations
_generate_recommendations(user, limit) ==
    Slice(FilledUp(PreferenceBased(user, limit), limit), limit)

\* the operation that has just ended, and its answer
NoOp == [op |-> "none", user |-> 0, limit |-> "", outcome |-> "", data |-> << >>]
Op(op, user, limit, outcome, data) ==
    [op |-> op, user |-> user, limit |-> limit, outcome |-> outcome, data |-> data]

\* a day passes; the cached responses live ten minutes
Tick ==
    /\ store.last = NoOp
    /\ store.now < MaxTime
    /\ store' = [store EXCEPT !.now = @ + 1, !.responses = {}]
    /\ UNCHANGED <<ratings, favorites, preferred_genres, config, cache, lastCall,
                   storeAux>>

\* RecommendationAdmin: a row is added by hand
AdminAddRow(user, movie, type, expires_at) ==
    /\ store.last = NoOp
    /\ \A r \in store.rows : ~ (r.user = user /\ r.movie = movie /\ r.type = type)
    /\ store' = [store EXCEPT !.rows = @ \cup {Row(user, movie, type, expires_at)},
                              !.last = Op("admin", user, "", "ok", << >>)]
    /\ UNCHANGED <<ratings, favorites, preferred_genres, config, cache, lastCall,
                   storeAux>>

\* cleanup_expired_cache_task; no RecommendationCache row is ever written.
\* The task returns how many rows it removed; a store that cannot be reached
\* makes it raise.
CleanupExpiredCacheTask(fails) ==
    /\ store.last = NoOp
    /\ store' = IF fails
                THEN [store EXCEPT !.last = Op("cleanup", 0, "", "error", << >>)]
                ELSE [store EXCEPT !.rows = DeleteExpired(@, store.now),
                                   !.last = Op("cleanup", 0, "", "ok",
                                       <<Cardinality(store.rows \ DeleteExpired(store.rows, store.now))>>)]
    /\ UNCHANGED <<ratings, favorites, preferred_genres, config, cache, lastCall,
                   storeAux>>

\* lines 63-75 with the engine's answer: the rows are written and the cache
\* key is deleted, or the exception is logged
WriteHybridRows(user, kept, answer, writeFails) ==
    /\ cache' = answer.cache
    /\ store' =
          IF answer.recs # << >> /\ (writeFails \/ BatchBreaksUnique(MoviesOf(answer.recs)))
          THEN [store EXCEPT !.rows = kept,
                             !.last = Op("regenerate", user, "", "error", << >>)]
          ELSE [store EXCEPT
                   !.rows = kept \cup NewHybridRows(user, MoviesOf(answer.recs), store.now),
                   !.responses = CacheDelete(@, ResponseKey(user, "*")),
                   !.last = Op("regenerate", user, "",
                               IF answer.recs = << >> THEN "empty" ELSE "ok", << >>)]

\* generate_user_recommendations_task, lines 38-75: the cycle of one user
RegenerateUser(user, deleteFails, storeDown, writeFails) ==
    /\ store.last = NoOp
    /\ IF deleteFails
       THEN /\ store' = [store EXCEPT !.last = Op("regenerate", user, "", "error", << >>)]
            /\ UNCHANGED cache
       ELSE \E answer \in { get_recommendations(cache, user, TASK_LIMIT, NoFailure, storeDown) } :
               WriteHybridRows(user,
                               { r \in store.rows : ~ (r.user = user /\ r.type = "hybrid") },
                               answer, writeFails)
    /\ UNCHANGED <<ratings, favorites, preferred_genres, config, lastCall, storeAux>>

\* PersonalizedRecommendationsView.get, lines 47-70
GetPersonalized(user, limit) ==
    /\ store.last = NoOp
    /\ store' =
          IF CacheGet(store.responses, ResponseKey(user, LimitText(limit))) # << >>
          THEN [store EXCEPT !.last = Op("get", user, LimitText(limit), "cached",
                    CacheGet(store.responses, ResponseKey(user, LimitText(limit))))]
          ELSE [store EXCEPT
                   !.responses = CacheSet(@, ResponseKey(user, LimitText(limit)),
                                          _generate_recommendations(user, limit)),
                   !.last = Op("get", user, LimitText(limit), "generated",
                               _generate_recommendations(user, limit))]
    /\ UNCHANGED <<ratings, favorites, preferred_genres, config, cache, lastCall,
                   storeAux>>

\* the operation's answer has been delivered
StoreReturn ==
    /\ store.last # NoOp
    /\ store' = [store EXCEPT !.last = NoOp]
    /\ UNCHANGED <<ratings, favorites, preferred_genres, config, cache, lastCall,
                   storeAux>>

\* no row, no cached response, day 0
StoreIdle == store = [now |-> 0, rows |-> {}, responses |-> {}, last |-> NoOp]

\* ------------------------------------------------------------- environment
\* The requests the clients of this model send.
RateInputs == { <<1, 5, 7>>, <<2, 6, 10>> }
FavoriteInputs == { <<1, 6>> }
ProfileInputs ==
    { <<1, <<"Action", "Drama">>>>, <<2, <<"Polka">>>>, <<3, <<"Science Fiction">>>> }

\* The rating rows the store starts with: users 1 and 2 agree on the movies
\* they both rated, user 1 is one rating short of min_common_ratings.
SeedRatings(u) ==
    CASE u = 1 -> << [movie |-> 1, rating |-> 10], [movie |-> 2, rating |-> 9],
                     [movie |-> 3, rating |-> 8],  [movie |-> 4, rating |-> 10] >>
      [] u = 2 -> << [movie |-> 1, rating |-> 10], [movie |-> 2, rating |-> 9],
                     [movie |-> 3, rating |-> 8],  [movie |-> 4, rating |-> 10],
                     [movie |-> 5, rating |-> 7] >>
      [] OTHER -> << >>

NoCall == [valid |-> FALSE]
Idle == ~ lastCall.valid

Init ==
    /\ ratings = [u \in Users |-> SeedRatings(u)]
    /\ favorites = [u \in Users |-> {}]
    /\ preferred_genres = [u \in Users |-> << >>]
    /\ config \in ConfigChoices
    /\ cache = NoMatrix
    /\ lastCall = NoCall
    /\ TasksIdle
    /\ MatrixIdle
    /\ ApiIdle
    /\ FetchIdle
    /\ PredictIdle
    /\ ContentIdle
    /\ StoreIdle
    /\ CosineIdle
    /\ MergeIdle

\* ----------------------------------------------------------------- actions
\* MovieRatingView.post / MovieRatingSerializer.create
RateMovie(u, m, h) ==
    /\ Idle
    /\ h \in 1..10
    /\ m \in Movies
    /\ ratings' = [ratings EXCEPT ![u] = UpdateOrCreateRating(@, m, h)]
    /\ UNCHANGED <<favorites, preferred_genres, config, cache, lastCall, aux>>

\* UserFavoritesView.post / UserFavoriteSerializer.create: get_or_create,
\* a validation error when the favorite exists
AddFavorite(u, m) ==
    /\ Idle
    /\ m \in Movies
    /\ favorites' = [favorites EXCEPT ![u] = @ \cup {m}]
    /\ UNCHANGED <<ratings, preferred_genres, config, cache, lastCall, aux>>

\* RemoveFavoriteView.delete: 404 when the user has no such favorite
RemoveFavorite(u, m) ==
    /\ Idle
    /\ favorites' = [favorites EXCEPT ![u] = @ \ {m}]
    /\ UNCHANGED <<ratings, preferred_genres, config, cache, lastCall, aux>>

\* profile update: preferred_genres is any list of strings
UpdateProfile(u, names) ==
    /\ Idle
    /\ preferred_genres' = [preferred_genres EXCEPT ![u] = names]
    /\ UNCHANGED <<ratings, favorites, config, cache, lastCall, aux>>

\* the cache entry's TTL (cache.set(cache_key, similarity_matrix, 3600)) elapses
ExpireCache ==
    /\ cache.present
    /\ cache' = NoMatrix
    /\ UNCHANGED <<ratings, favorites, preferred_genres, config, lastCall, aux>>

\* update_user_similarity_matrix_task: cache.delete, then recompute
UpdateUserSimilarityMatrixTask ==
    /\ cache' = get_user_similarity_matrix(NoMatrix).cache
    /\ UNCHANGED <<ratings, favorites, preferred_genres, config, lastCall, aux>>

\* what is kept of a call: its arguments, its answer, and the list the
\* preceding call returned when that call had the same arguments
CallRecord(answer, user, limit, fail, last) ==
    [valid |-> TRUE, user |-> user, limit |-> limit, fail |-> fail,
     recs |-> answer.recs, escaped |-> answer.escaped,
     collabRan |-> answer.collabRan, contentRan |-> answer.contentRan,
     popularityRan |-> answer.popularityRan,
     collaborative |-> answer.collaborative, content |-> answer.content,
     popularity |-> answer.popularity,
     hasPrev |-> last.valid,
     prev |-> IF last.valid THEN last.recs ELSE << >>]

\* recommendation_engine.get_recommendations(user, limit).  Until the answer
\* is handed over, only the same request can be repeated.
GetRecommendations(user, limit, fail) ==
    /\ \/ Idle
       \/ /\ lastCall.valid
          /\ lastCall.user = user /\ lastCall.limit = limit
          /\ lastCall.fail = NoFailure /\ fail = NoFailure
    /\ \E answer \in { HybridGetRecommendations(cache, user, limit, fail) } :
           /\ cache' = answer.cache
           /\ lastCall' = CallRecord(answer, user, limit, fail, lastCall)
    /\ UNCHANGED <<ratings, favorites, preferred_genres, config, aux>>

\* the answer is handed to the caller
Respond ==
    /\ lastCall.valid
    /\ lastCall' = NoCall
    /\ UNCHANGED <<ratings, favorites, preferred_genres, config, cache, aux>>

Next ==
    \/ \E i \in RateInputs : RateMovie(i[1], i[2], i[3])
    \/ \E i \in FavoriteInputs : AddFavorite(i[1], i[2])
    \/ \E i \in FavoriteInputs : RemoveFavorite(i[1], i[2])
    \/ \E i \in ProfileInputs : UpdateProfile(i[1], i[2])
    \/ ExpireCache
    \/ UpdateUserSimilarityMatrixTask
    \/ \E u \in Users, limit \in Limits, fail \in FailInputs :
            GetRecommendations(u, limit, fail)
    \/ Respond

Spec == Init /\ [][Next]_vars

\* ------------------------------------------------- the background task runs
\* The tasks run over the seeded ratings; no request is in progress.
TaskInit ==
    /\ ratings = [u \in Users |-> SeedRatings(u)]
    /\ favorites = [u \in Users |-> {}]
    /\ preferred_genres = [u \in Users |-> << >>]
    /\ config \in ConfigChoices
    /\ cache = NoMatrix
    /\ lastCall = NoCall
    /\ TasksIdle
    /\ MatrixIdle
    /\ ApiIdle
    /\ FetchIdle
    /\ PredictIdle
    /\ ContentIdle
    /\ StoreIdle
    /\ CosineIdle
    /\ MergeIdle

TaskNext ==
    \/ \E w \in UserRuns, user_id \in TaskInputs, fails \in BOOLEAN :
            StartUserTask(w, user_id, fails)
    \/ \E w \in UserRuns, fails \in BOOLEAN : ClearUserRecommendations(w, fails)
    \/ \E w \in UserRuns, storeDown \in BOOLEAN, fails \in BOOLEAN :
            GenerateUserRecommendations(w, storeDown, fails)
    \/ \E w \in TrendingRuns, tmdb \in TrendingInputs, fails \in BOOLEAN :
            FetchTrending(w, tmdb, fails)
    \/ \E w \in TrendingRuns, fails \in BOOLEAN : ClearTrending(w, fails)
    \/ \E w \in TrendingRuns, enforced \in BOOLEAN, fails \in BOOLEAN :
            CreateTrending(w, enforced, fails)

SpecTasks == TaskInit /\ [][TaskNext]_vars

\* ------------------------------------------- the matrix computations' runs
\* Rating rows in which every user has rated five movies or more: users 1
\* and 3 share four movies, user 2 shares five with each of them.
DenseRatings(u) ==
    CASE u = 1 -> << [movie |-> 1, rating |-> 10], [movie |-> 2, rating |-> 9],
                     [movie |-> 3, rating |-> 8],  [movie |-> 4, rating |-> 10],
                     [movie |-> 5, rating |-> 7] >>
      [] u = 2 -> << [movie |-> 1, rating |-> 10], [movie |-> 2, rating |-> 9],
                     [movie |-> 3, rating |-> 8],  [movie |-> 4, rating |-> 10],
                     [movie |-> 5, rating |-> 7],  [movie |-> 6, rating |-> 10] >>
      [] u = 3 -> << [movie |-> 2, rating |-> 4],  [movie |-> 3, rating |-> 10],
                     [movie |-> 4, rating |-> 6],  [movie |-> 5, rating |-> 9],
                     [movie |-> 6, rating |-> 10] >>
      [] OTHER -> << >>

\* Rating rows in which no user has rated five movies: user 1 has rated four
SparseRatings(u) ==
    CASE u = 1 -> << [movie |-> 1, rating |-> 10], [movie |-> 2, rating |-> 9],
                     [movie |-> 3, rating |-> 8],  [movie |-> 4, rating |-> 10] >>
      [] OTHER -> << >>

\* the rating writes that arrive while matrices are computed
MatrixRateInputs == { <<1, 6, 10>>, <<3, 2, 10>> }

MatrixInit ==
    /\ ratings \in { [u \in Users |-> SeedRatings(u)], [u \in Users |-> DenseRatings(u)],
                     [u \in Users |-> SparseRatings(u)] }
    /\ favorites = [u \in Users |-> {}]
    /\ preferred_genres = [u \in Users |-> << >>]
    /\ config = CHOOSE c \in ConfigChoices : TRUE
    /\ cache = NoMatrix
    /\ lastCall = NoCall
    /\ TasksIdle
    /\ MatrixIdle
    /\ ApiIdle
    /\ FetchIdle
    /\ PredictIdle
    /\ ContentIdle
    /\ StoreIdle
    /\ CosineIdle
    /\ MergeIdle

MatrixNext ==
    \/ \E w \in Computers : CallGetMatrix(w)
    \/ \E w \in Computers : TaskDeleteMatrix(w)
    \/ \E w \in Computers : TaskGetMatrix(w)
    \/ \E w \in Computers : ReadUserRatings(w)
    \/ \E w \in Computers : CompareWithOther(w)
    \/ \E w \in Computers : SetMatrix(w)
    \/ \E i \in MatrixRateInputs : RateDuringComputation(i[1], i[2], i[3])

SpecMatrix == MatrixInit /\ [][MatrixNext]_vars

\* --------------------------------------- the rating and favorite requests
\* the requests: users, movie ids (one of them not in the catalog), ratings
\* in half stars (one of them out of range) and primary keys
ApiUsers == {1, 3}
ApiMovies == {5, 6, NumMovies + 1}
ApiRatedMovies == {5, NumMovies + 1}
ApiRatings == {0, 7, 10}

ApiInit ==
    /\ ratings = [u \in Users |-> SeedRatings(u)]
    /\ favorites = [u \in Users |-> {}]
    /\ preferred_genres = [u \in Users |-> << >>]
    /\ config = CHOOSE c \in ConfigChoices : TRUE
    /\ cache = NoMatrix
    /\ lastCall = NoCall
    /\ TasksIdle
    /\ MatrixIdle
    /\ ApiIdle
    /\ FetchIdle
    /\ PredictIdle
    /\ ContentIdle
    /\ StoreIdle
    /\ CosineIdle
    /\ MergeIdle

ApiNext ==
    \/ \E u \in ApiUsers, m \in ApiRatedMovies, h \in ApiRatings : PostRating(u, m, h)
    \/ \E u \in ApiUsers, m \in ApiMovies : PostFavorite(u, m)
    \/ \E u \in ApiUsers, pk \in 1..MaxFavoriteId : DeleteFavorite(u, pk)

SpecApi == ApiInit /\ [][ApiNext]_vars

\* ------------------------------------------------------- the TMDb requests
FetchInit ==
    /\ ratings = [u \in Users |-> SeedRatings(u)]
    /\ favorites = [u \in Users |-> {}]
    /\ preferred_genres = [u \in Users |-> << >>]
    /\ config = CHOOSE c \in ConfigChoices : TRUE
    /\ cache = NoMatrix
    /\ lastCall = NoCall
    /\ TasksIdle
    /\ MatrixIdle
    /\ ApiIdle
    /\ FetchIdle
    /\ PredictIdle
    /\ ContentIdle
    /\ StoreIdle
    /\ CosineIdle
    /\ MergeIdle

FetchNext ==
    \/ \E n \in 0..MaxRetries, api_key \in BOOLEAN : CallMakeRequest(n, api_key)
    \/ \E answer \in Answers : Attempt(answer)

SpecFetch == FetchInit /\ [][FetchNext]_vars

\* --------------------------------------------------- the predicted ratings
PredictInit ==
    /\ ratings = [u \in Users |-> SeedRatings(u)]
    /\ favorites = [u \in Users |-> {}]
    /\ preferred_genres = [u \in Users |-> << >>]
    /\ config = CHOOSE c \in ConfigChoices : TRUE
    /\ cache = NoMatrix
    /\ lastCall = NoCall
    /\ TasksIdle
    /\ MatrixIdle
    /\ ApiIdle
    /\ FetchIdle
    /\ PredictIdle
    /\ ContentIdle
    /\ StoreIdle
    /\ CosineIdle
    /\ MergeIdle

PredictNext ==
    \/ \E similarity \in SimilarityChoices, h \in NeighborRatings : ScoreNeighbor(similarity, h)
    \/ PredictRating

SpecPredict == PredictInit /\ [][PredictNext]_vars

\* ------------------------------------------------------ the content scores
ContentInit ==
    /\ ratings = [u \in Users |-> SeedRatings(u)]
    /\ favorites = [u \in Users |-> {}]
    /\ preferred_genres = [u \in Users |-> << >>]
    /\ config = CHOOSE c \in ConfigChoices : TRUE
    /\ cache = NoMatrix
    /\ lastCall = NoCall
    /\ TasksIdle
    /\ MatrixIdle
    /\ ApiIdle
    /\ FetchIdle
    /\ PredictIdle
    /\ ContentIdle
    /\ StoreIdle
    /\ CosineIdle
    /\ MergeIdle

ContentNext ==
    \E user_genres \in GenreInputs, history \in HistoryInputs, movie \in ContentRows :
        ScoreCandidate(user_genres, history, movie)

SpecContent == ContentInit /\ [][ContentNext]_vars

\* ------------------------------------------- the recommendation rows' runs
\* the rows an administrator adds, the users whose rows are regenerated and
\* the requests to the personalized-recommendations endpoint
AdminRows ==
    { Row(2, 1, "similar", NoExpiry), Row(NoUser, 2, "trending", ExpiresAt(1)),
      Row(1, 3, "hybrid", ExpiresAt(2)) }
RegeneratedUsers == {1}
ViewRequests == { <<1, 2>>, <<1, 3>>, <<2, 3>> }

StoreInit ==
    /\ ratings = [u \in Users |-> SeedRatings(u)]
    /\ favorites = [u \in Users |-> IF u = 1 THEN {3} ELSE {}]
    /\ preferred_genres = [u \in Users |-> IF u = 1 THEN <<"Action">> ELSE << >>]
    /\ config = CHOOSE c \in ConfigChoices : TRUE
    /\ cache = NoMatrix
    /\ lastCall = NoCall
    /\ TasksIdle
    /\ MatrixIdle
    /\ ApiIdle
    /\ FetchIdle
    /\ PredictIdle
    /\ ContentIdle
    /\ StoreIdle
    /\ CosineIdle
    /\ MergeIdle

StoreNext ==
    \/ Tick
    \/ \E r \in AdminRows : AdminAddRow(r.user, r.movie, r.type, r.expires_at)
    \/ \E fails \in BOOLEAN : CleanupExpiredCacheTask(fails)
    \/ \E user \in RegeneratedUsers, deleteFails, storeDown, writeFails \in BOOLEAN :
            RegenerateUser(user, deleteFails, storeDown, writeFails)
    \/ \E q \in ViewRequests : GetPersonalized(q[1], q[2])
    \/ StoreReturn

SpecStore == StoreInit /\ [][StoreNext]_vars

\* ------------------------------------------------ the pairs' similarities
\* rating dicts (movie -> half stars) of the users that are compared
RatingVectors ==
    { (1 :> 1 @@ 2 :> 1 @@ 3 :> 1 @@ 4 :> 1 @@ 5 :> 3),
      (1 :> 2 @@ 2 :> 2 @@ 3 :> 2 @@ 4 :> 2 @@ 5 :> 6),
      (1 :> 10 @@ 2 :> 9 @@ 3 :> 8 @@ 4 :> 10 @@ 5 :> 7),
      (1 :> 10 @@ 2 :> 9 @@ 3 :> 8 @@ 4 :> 10 @@ 5 :> 7 @@ 6 :> 10),
      (1 :> 5 @@ 2 :> 5 @@ 3 :> 10 @@ 4 :> 8 @@ 5 :> 9),
      (1 :> 7 @@ 2 :> 10 @@ 3 :> 1 @@ 4 :> 8 @@ 5 :> 4 @@ 6 :> 7),
      (1 :> 1 @@ 2 :> 1 @@ 3 :> 1 @@ 4 :> 1 @@ 5 :> 1 @@ 6 :> 10),
      (1 :> 1 @@ 2 :> 1 @@ 3 :> 1 @@ 4 :> 1 @@ 5 :> 1 @@ 7 :> 10),
      (1 :> 10 @@ 2 :> 10 @@ 3 :> 10 @@ 4 :> 10 @@ 5 :> 10),
      (1 :> 1 @@ 2 :> 2 @@ 3 :> 3 @@ 4 :> 4 @@ 5 :> 5 @@ 6 :> 6),
      (1 :> 10 @@ 2 :> 9 @@ 3 :> 8 @@ 4 :> 10) }

\* the pairs of users: two users, and a user met in the inner loop
UserPairs == { <<1, 2>>, <<1, 1>> }

CosineInit ==
    /\ ratings = [u \in Users |-> SeedRatings(u)]
    /\ favorites = [u \in Users |-> {}]
    /\ preferred_genres = [u \in Users |-> << >>]
    /\ config = CHOOSE c \in ConfigChoices : TRUE
    /\ cache = NoMatrix
    /\ lastCall = NoCall
    /\ TasksIdle
    /\ MatrixIdle
    /\ ApiIdle
    /\ FetchIdle
    /\ PredictIdle
    /\ ContentIdle
    /\ StoreIdle
    /\ CosineIdle
    /\ MergeIdle

CosineNext ==
    \E p \in UserPairs, user_ratings \in RatingVectors, other_ratings \in RatingVectors :
        /\ p[1] = p[2] => user_ratings = other_ratings
        /\ ComparePair(p[1], p[2], user_ratings, other_ratings)

SpecCosine == CosineInit /\ [][CosineNext]_vars

\* ------------------------------------------------------------- the merges
\* the lists of weighted entries that are merged: up to MaxMerged entries
\* over three movies and three scores, the reason naming the strategy
MaxMerged == 3
MergeReason(score) == IF score = 2 THEN ContentReason(<< >>) ELSE PopularityReason
MergeMovies == {1, 2, 3}
MergeScores == {1, 2, 3}
MergeEntries ==
    { Entry(movie, score, MergeReason(score)) : movie \in MergeMovies, score \in MergeScores }
MergeInputs == UNION { [1..n -> MergeEntries] : n \in 0..MaxMerged }

MergeInit ==
    /\ ratings = [u \in Users |-> SeedRatings(u)]
    /\ favorites = [u \in Users |-> {}]
    /\ preferred_genres = [u \in Users |-> << >>]
    /\ config = CHOOSE c \in ConfigChoices : TRUE
    /\ cache = NoMatrix
    /\ lastCall = NoCall
    /\ TasksIdle
    /\ MatrixIdle
    /\ ApiIdle
    /\ FetchIdle
    /\ PredictIdle
    /\ ContentIdle
    /\ StoreIdle
    /\ CosineIdle
    /\ MergeIdle

MergeNext ==
    \E all_recommendations \in MergeInputs, limit \in Limits :
        MergeAndSort(all_recommendations, limit)

SpecMerge == MergeInit /\ [][MergeNext]_vars

\* ================================================================== claims
\* the entries a strategy is recognised by: the first part of its reason
IsCollaborative(e) == e.reason[1] = "Recommended by users with similar tastes (score: "
IsContent(e) == e.reason[1] = "Similar to your preferred genres: "
IsPopularity(e) == e.reason[1] = "Popular movies trending now"

\* what the strategies handed to the merge, in merge order
Contributions == lastCall.collaborative \o lastCall.content \o lastCall.popularity

\* C1: no movie of the returned list is a favorite of the user or rated by
\* the user (as claimed; the collaborative filter only leaves out rated movies)
C1_NoFavoriteOrRatedMovie ==
    lastCall.valid =>
        \A i \in DOMAIN lastCall.recs :
            lastCall.recs[i].movie \notin ExcludedMovies(lastCall.user)

\* C2: with at least `limit` movies neither favorited nor rated by the user,
\* a call that meets no failure returns exactly `limit` entries (as claimed)
C2_FullListWhenEnoughEligible ==
    (/\ lastCall.valid
     /\ lastCall.fail = NoFailure
     /\ Cardinality(Movies \ ExcludedMovies(lastCall.user)) >= lastCall.limit)
    => Len(lastCall.recs) = lastCall.limit

\* C3: the returned list never holds the same movie id twice
C3_NoDuplicateMovie ==
    lastCall.valid =>
        \A i, j \in DOMAIN lastCall.recs :
            i # j => lastCall.recs[i].movie # lastCall.recs[j].movie

\* C3 witness: two strategies contributed the same movie and it was returned
C3_Witness ==
    /\ lastCall.valid
    /\ \E i \in DOMAIN lastCall.content, j \in DOMAIN lastCall.popularity :
          /\ lastCall.content[i].movie = lastCall.popularity[j].movie
          /\ \E k \in DOMAIN lastCall.recs :
                lastCall.recs[k].movie = lastCall.content[i].movie

\* C4: the returned list has at most `limit` entries, for every limit >= 0
C4_AtMostLimit == lastCall.valid => Len(lastCall.recs) <= lastCall.limit

\* C4 witness: an odd limit whose every slot is filled
C4_Witness ==
    /\ lastCall.valid
    /\ lastCall.limit % 2 = 1
    /\ Len(lastCall.recs) = lastCall.limit

\* C5: a call repeated with the same user and limit over unchanged ratings,
\* favorites, catalog and configuration returns the same ordered list, also
\* when the cached matrix expired or was refreshed in between (as claimed)
C5_SameListOnRepeat ==
    (lastCall.valid /\ lastCall.hasPrev) => lastCall.recs = lastCall.prev

\* C6: a user without ratings, preferred genres and favorites gets nothing
\* from the collaborative and content filters, and only popularity entries
C6_ColdStartOnlyPopularity ==
    (/\ lastCall.valid
     /\ RatingCount(lastCall.user) = 0
     /\ preferred_genres[lastCall.user] = << >>
     /\ favorites[lastCall.user] = {})
    => /\ lastCall.collaborative = << >>
       /\ lastCall.content = << >>
       /\ \A i \in DOMAIN lastCall.recs : IsPopularity(lastCall.recs[i])

\* C6 witness: such a user is answered with a non-empty list
C6_Witness ==
    /\ lastCall.valid
    /\ RatingCount(lastCall.user) = 0
    /\ preferred_genres[lastCall.user] = << >>
    /\ favorites[lastCall.user] = {}
    /\ lastCall.recs # << >>

\* C7: every contributed movie is returned once, with the maximum of the
\* weighted scores contributed for it and the reason of its first contribution
C7_MaxScoreFirstReason ==
    lastCall.valid =>
        /\ \A j \in DOMAIN Contributions :
              \E i \in DOMAIN lastCall.recs :
                  lastCall.recs[i].movie = Contributions[j].movie
        /\ \A i \in DOMAIN lastCall.recs :
              \E j \in DOMAIN Contributions :
                  /\ Contributions[j].movie = lastCall.recs[i].movie
                  /\ \A k \in 1..(j - 1) :
                        Contributions[k].movie # lastCall.recs[i].movie
                  /\ lastCall.recs[i].reason = Contributions[j].reason
                  /\ \E k \in DOMAIN Contributions :
                        /\ Contributions[k].movie = lastCall.recs[i].movie
                        /\ Contributions[k].score = lastCall.recs[i].score
                  /\ \A k \in DOMAIN Contributions :
                        Contributions[k].movie = lastCall.recs[i].movie
                            => Contributions[k].score <= lastCall.recs[i].score

\* C7 witness: a movie contributed twice whose first contribution has the
\* lower score
C7_Witness ==
    /\ lastCall.valid
    /\ \E j, k \in DOMAIN Contributions :
          /\ j < k
          /\ Contributions[j].movie = Contributions[k].movie
          /\ Contributions[j].score < Contributions[k].score

\* C8: the collaborative filter runs exactly when the user has at least
\* MIN_RATING_COUNT ratings, the content filter always; with
\* MIN_RATING_COUNT - 1 ratings nothing of the answer is collaborative
C8_CollaborativeGate ==
    lastCall.valid =>
        /\ lastCall.collabRan
              <=> RatingCount(lastCall.user) >= config.MIN_RATING_COUNT
        /\ lastCall.contentRan
        /\ RatingCount(lastCall.user) = config.MIN_RATING_COUNT - 1
              => /\ lastCall.collaborative = << >>
                 /\ \A i \in DOMAIN lastCall.recs : ~ IsCollaborative(lastCall.recs[i])

\* C8 witness: a user one rating short of MIN_RATING_COUNT for whom the
\* cached matrix has a neighbor with a movie the user has not rated
C8_Witness ==
    /\ lastCall.valid
    /\ lastCall.limit >= 2
    /\ RatingCount(lastCall.user) = config.MIN_RATING_COUNT - 1
    /\ CacheHit(cache)
    /\ lastCall.user \in DOMAIN cache.matrix
    /\ \E v \in DOMAIN cache.matrix[lastCall.user] :
          RatedMovies(v) \ RatedMovies(lastCall.user) # {}

\* C9 as claimed: a popularity entry of the answer has the score
\* 0.6 * min(popularity/100, 1) + 0.4 * (rating/10), multiplied by no weight
\* (in 1e-7 units the unweighted blend is the blend times 100)
C9_PopularityScoreUnweighted ==
    lastCall.valid =>
        \A i \in DOMAIN lastCall.recs :
            IsPopularity(lastCall.recs[i]) =>
                lastCall.recs[i].score =
                    (600 * Min(Movie(lastCall.recs[i].movie).popularity, 100)
                     + 400 * Movie(lastCall.recs[i].movie).vote_average) * 100

\* C9 amended: the score of a popularity entry of the answer is that blend
\* multiplied by POPULARITY_WEIGHT
C9_PopularityScoreWeighted ==
    lastCall.valid =>
        \A i \in DOMAIN lastCall.recs :
            IsPopularity(lastCall.recs[i]) =>
                lastCall.recs[i].score =
                    (600 * Min(Movie(lastCall.recs[i].movie).popularity, 100)
                     + 400 * Movie(lastCall.recs[i].movie).vote_average)
                    * config.POPULARITY_WEIGHT

\* C9 witness: a popularity entry of a movie with popularity over 100 is
\* returned under a POPULARITY_WEIGHT other than 1
C9_Witness ==
    /\ lastCall.valid
    /\ config.POPULARITY_WEIGHT # 100
    /\ \E i \in DOMAIN lastCall.recs :
          /\ IsPopularity(lastCall.recs[i])
          /\ Movie(lastCall.recs[i].movie).popularity > 100

\* C10: a strategy that raises contributes nothing, no exception leaves the
\* call, the other strategies run as they do without the failure, and the
\* answer is the merge of what they contributed
C10_FailingStrategyIsEmpty ==
    lastCall.valid =>
        /\ ~ lastCall.escaped
        /\ lastCall.fail.collaborative # "ok" => lastCall.collaborative = << >>
        /\ lastCall.fail.content => lastCall.content = << >>
        /\ lastCall.fail.popularity => lastCall.popularity = << >>
        /\ lastCall.contentRan
        /\ ~ lastCall.fail.content =>
              lastCall.content =
                  Weighted(ContentTry(lastCall.user, lastCall.limit \div 2, FALSE).value,
                           config.CONTENT_BASED_WEIGHT)
        /\ lastCall.popularityRan
              <=> Len(lastCall.collaborative) + Len(lastCall.content) < lastCall.limit
        /\ (lastCall.popularityRan /\ ~ lastCall.fail.popularity) =>
              lastCall.popularity =
                  PopularityTry(lastCall.user,
                                lastCall.limit - (Len(lastCall.collaborative)
                                                  + Len(lastCall.content)),
                                FALSE).value
        /\ lastCall.recs = FinalRecommendations(Contributions, lastCall.limit)

\* C10 witness: the collaborative filter raised for a user it had a neighbor
\* for, and the content filter and the popularity fallback both delivered
C10_Witness ==
    /\ lastCall.valid
    /\ lastCall.fail.collaborative = "ratings"
    /\ lastCall.collabRan
    /\ lastCall.user \in DOMAIN cache.matrix
    /\ lastCall.content # << >>
    /\ lastCall.popularity # << >>
    /\ lastCall.recs # << >>

\* C11 as claimed: when the store cannot be reached while the engine counts
\* the user's ratings, the failure leaves get_recommendations as an error
C11_PipelineFailureEscapes ==
    \A w \in UserRuns : workers[w].storeDown => workers[w].escaped

\* a step of run w in which the processing of a user failed
UserFailed(w) == /\ Len(workers'[w].outcome) = Len(workers[w].outcome) + 1
                 /\ workers'[w].outcome[Len(workers'[w].outcome)] = "error"

\* C14: a failure while one user is processed does not end the run (the run
\* goes on with the next user and ends having handled every user of the
\* batch) and leaves every recommendation row in the store
C14_UserFailureIsolated ==
    /\ [](\A w \in UserRuns :
            /\ workers[w].pc = "done" => Len(workers[w].outcome) = Len(workers[w].users)
            /\ workers[w].pc = "raised" => workers[w].outcome = << >>)
    /\ [][\A w \in UserRuns :
            UserFailed(w) =>
                /\ recommendations' = recommendations
                /\ IF workers[w].idx < Len(workers[w].users)
                   THEN workers'[w].pc = "delete" /\ workers'[w].idx = workers[w].idx + 1
                   ELSE workers'[w].pc = "done"]_vars

\* C14 witness: a finished run over two users that failed for the first and
\* wrote rows for the second, with rows of another run's user in the store
C14_Witness ==
    \E w \in UserRuns :
        /\ workers[w].pc = "done"
        /\ workers[w].outcome = <<"error", "ok">>
        /\ \E m \in Movies : recommendations[<<workers[w].users[2], m, "hybrid">>] > 0
        /\ \E m \in Movies : recommendations[<<workers[w].users[1], m, "hybrid">>] > 0

\* C15 as claimed: the store holds at most one record per (user, movie,
\* type), general records included
C15_OneRecordPerKey == \A k \in RecKeys : recommendations[k] <= 1

\* the matrices the executions returned, and the cached one
ReturnedMatrices ==
    { computations[w].result : w \in { w \in Computers : computations[w].pc = "done" } }
    \cup { cache.matrix : x \in { x \in {1} : cache.present } }

\* the movies both users have rated
CommonMovies(u, v) == RatedMovies(u) \cap RatedMovies(v)

\* C12: in every matrix get_user_similarity_matrix returns or caches, two
\* users who share fewer than 5 rated movies are not neighbors of each
\* other, and a user with fewer than 5 ratings is neither a key nor a neighbor
C12_FewCommonRatingsAbsent ==
    \A matrix \in ReturnedMatrices :
        \A u \in Users : \A v \in Users \ {u} :
            /\ (Cardinality(CommonMovies(u, v)) < 5 /\ u \in DOMAIN matrix)
                  => v \notin DOMAIN matrix[u]
            /\ RatingCount(v) < 5
                  => v \notin DOMAIN matrix
                     /\ (u \in DOMAIN matrix => v \notin DOMAIN matrix[u])

\* C12 witness: a computed matrix in which two users with five ratings each
\* who share four movies are keys, and another pair are neighbors
C12_Witness ==
    /\ cache.present
    /\ \E u \in DOMAIN cache.matrix, v \in DOMAIN cache.matrix :
          /\ u # v
          /\ Cardinality(CommonMovies(u, v)) = 4
          /\ v \notin DOMAIN cache.matrix[u]
    /\ \E u \in DOMAIN cache.matrix : DOMAIN cache.matrix[u] # {}

\* v is a neighbor of u exactly when u is one of v, with the same score
Symmetric(matrix) ==
    \A u \in DOMAIN matrix : \A v \in DOMAIN matrix[u] :
        /\ v \in DOMAIN matrix
        /\ u \in DOMAIN matrix[v]
        /\ matrix[v][u] = matrix[u][v]

\* C13 as claimed: every matrix that is computed and cached is symmetric,
\* also when ratings are written while it is computed
C13_MatrixSymmetric == cache.present => Symmetric(cache.matrix)

\* C16: while the ratings stay the same, every execution returns the matrix
\* one execution alone computes from them, and once every execution that
\* began has ended the cache holds that matrix
C16_ConcurrentRecomputation ==
    writes = 0 =>
        /\ \A w \in Computers :
              computations[w].pc = "done"
                  => computations[w].result = ComputeSimilarityMatrix
        /\ ((\A w \in Computers : computations[w].pc \in {"idle", "done"})
            /\ (\E w \in Computers : computations[w].pc = "done"))
                  => cache = Cached(ComputeSimilarityMatrix)

\* C16 witness: two executions that both missed the cache and both computed
\* and stored a matrix with neighbors, over unchanged ratings
C16_Witness ==
    /\ writes = 0
    /\ \A w \in Computers :
          /\ computations[w].pc = "done"
          /\ computations[w].users # << >>
          /\ \E u \in DOMAIN computations[w].result :
                DOMAIN computations[w].result[u] # {}

\* C17 as claimed: at most one rating per (user, movie), with a value in
\* [0.5, 5.0]; an accepted rating is stored as submitted, and its request is
\* answered 201 when the pair had no rating and 200 when it had one
C17_RatingUpsert ==
    /\ \A u \in Users : \A i, j \in DOMAIN ratings[u] :
          /\ i # j => ratings[u][i].movie # ratings[u][j].movie
          /\ ValidRating(ratings[u][i].rating)
    /\ (response.op = "rate" /\ ValidRating(response.rating) /\ response.movie \in Movies)
          => /\ RatingDict(response.user)[response.movie] = response.rating
             /\ response.status = IF response.existed THEN 200 ELSE 201

\* C18: at most one favorite per (user, movie); adding a favorite that
\* exists is answered with a validation error (400) and changes nothing; a
\* remove request deletes exactly the addressed favorite of the requesting
\* user (204), and otherwise is answered 404 and deletes nothing
C18_FavoriteAddRemove ==
    /\ [](\A r1, r2 \in favoriteRows :
            (r1.user = r2.user /\ r1.movie = r2.movie) => r1 = r2)
    /\ [][\A u \in ApiUsers :
            /\ \A m \in Movies :
                  (PostFavorite(u, m) /\ m \in FavoriteMovies(favoriteRows, u))
                      => response'.status = 400 /\ favoriteRows' = favoriteRows
            /\ \A pk \in 1..MaxFavoriteId :
                  DeleteFavorite(u, pk) =>
                      IF \E r \in favoriteRows : r.id = pk /\ r.user = u
                      THEN /\ response'.status = 204
                           /\ favoriteRows' = { r \in favoriteRows : r.id # pk }
                      ELSE /\ response'.status = 404
                           /\ favoriteRows' = favoriteRows]_vars

\* C18 witness: while both users have favorites, a user's request to remove
\* the other user's favorite was answered 404
C18_Witness ==
    /\ response.op = "remove"
    /\ response.status = 404
    /\ \E r \in favoriteRows : r.id = response.pk /\ r.user # response.user
    /\ \E r \in favoriteRows : r.user = response.user

\* the attempts of the request that returned data
Succeeded(answer) ==
    answer.raised = "none" /\ answer.status = 200 /\ answer.body \in Pages

\* C19 as claimed: _make_request(endpoint, retries = n) makes at most n
\* attempts; a 429 answer on an attempt that is not the last is followed by a
\* further attempt; when the last attempt made succeeds its data is returned;
\* when every attempt fails the result is None, and the call always returns
C19_RequestRetries ==
    /\ Len(fetch.answers) <= fetch.retries
    /\ fetch.result \in Pages \cup {None}
    /\ fetch.pc = "done" /\ fetch.answers # << >> =>
        LET last == fetch.answers[Len(fetch.answers)]
        IN  /\ last.raised = "none" /\ last.status = 429 =>
                Len(fetch.answers) = fetch.retries
            /\ Succeeded(last) => fetch.result = last.body
            /\ (\A i \in 1..Len(fetch.answers) : ~ Succeeded(fetch.answers[i])) =>
                fetch.result = None

\* the neighbors met that rated the movie
RatedBy == SelectSeq(prediction.neighbors, LAMBDA nb : nb.rating # NotRated)

\* the sum of rating * similarity over the neighbors, in floats, in order
RECURSIVE SumOfWeighted(_)
SumOfWeighted(nbs) ==
    IF nbs = << >> THEN FloatZero
    ELSE CHOOSE sum \in
            { FloatAdd(before, product) :
                before \in {SumOfWeighted(SubSeq(nbs, 1, Len(nbs) - 1))},
                product \in {FloatMul(FloatOfRating(nbs[Len(nbs)].rating),
                                      nbs[Len(nbs)].similarity)} } : TRUE

\* the sum of |similarity| over the neighbors, in floats, in order
RECURSIVE SumOfWeights(_)
SumOfWeights(nbs) ==
    IF nbs = << >> THEN FloatZero
    ELSE CHOOSE sum \in
            { FloatAdd(before, FloatAbs(nbs[Len(nbs)].similarity)) :
                before \in {SumOfWeights(SubSeq(nbs, 1, Len(nbs) - 1))} } : TRUE

\* the quotient of the two sums
QuotientOfSums(nbs) ==
    CHOOSE quotient \in
        { FloatDiv(weighted, weights) :
            weighted \in {SumOfWeighted(nbs)}, weights \in {SumOfWeights(nbs)} } : TRUE

\* the lowest and the highest rating the neighbors gave, as floats
LowestRating(nbs) ==
    FloatOfRating(CHOOSE h \in Range([i \in 1..Len(nbs) |-> nbs[i].rating]) :
                    \A i \in 1..Len(nbs) : h <= nbs[i].rating)
HighestRating(nbs) ==
    FloatOfRating(CHOOSE h \in Range([i \in 1..Len(nbs) |-> nbs[i].rating]) :
                    \A i \in 1..Len(nbs) : h >= nbs[i].rating)

\* x <= y * (1 + 2^-50), exactly: the rounding of at most eight float
\* operations
RoundingScale == BigPow2(50)
LeqRounded(x, y) ==
    FloatLeq([n |-> BigMul(x.n, RoundingScale), e |-> x.e],
             [n |-> BigMul(y.n, BigAdd(RoundingScale, <<1>>)), e |-> y.e])

BaseAboveTenth(base) ==
    base.weight_sum > 0 /\ base.similarity_sum > 10 * base.weight_sum

\* C21: the content filter keeps a scored candidate exactly when its base
\* similarity is above 0.1, whatever the blend factor of the row is
C21_KeptIffBaseAboveTenth ==
    candidate.scored =>
        (candidate.kept
            <=> BaseAboveTenth(BaseScore(candidate.user_profile, candidate.movie)))

\* C21 witness: a kept candidate whose blend factor is the lowest, 0.6, and
\* whose base similarity is below 0.8
C21_Witness ==
    /\ candidate.scored
    /\ candidate.kept
    /\ QualityBoost(candidate.movie) = 600
    /\ BaseScore(candidate.user_profile, candidate.movie).similarity_sum * 100
         < 80 * 100 * BaseScore(candidate.user_profile, candidate.movie).weight_sum

\* the content filter ran to its end in the call kept in lastCall
ContentAnswered ==
    lastCall.valid /\ lastCall.contentRan /\ ~ lastCall.fail.content

\* the profile the content filter builds for the user
ProfileOf(user) ==
    _build_user_profile(preferred_genres[user],
        SelectSeq(RatingRows(user), LAMBDA r : r.rating >= 8))

\* C22: every movie the content filter returns has a genre code among the
\* codes of the user's preferred genre names; a user without a known
\* preferred genre name gets nothing from the content filter, whatever the
\* profile built from the ratings is
C22_OnlyPreferredGenres ==
    ContentAnswered =>
        /\ \A i \in DOMAIN lastCall.content :
              Range(Movie(lastCall.content[i].movie).genre_ids)
                  \cap _get_genre_ids(preferred_genres[lastCall.user]) # {}
        /\ _get_genre_ids(preferred_genres[lastCall.user]) = {}
              => lastCall.content = << >>

\* C22 witness: a user whose preferred genres hold only an unknown name,
\* whose ratings give a profile, and who has not rated or favorited a movie
\* with a genre of that profile, got nothing from the content filter
C22_Witness ==
    /\ ContentAnswered
    /\ lastCall.limit >= 2
    /\ preferred_genres[lastCall.user] # << >>
    /\ _get_genre_ids(preferred_genres[lastCall.user]) = {}
    /\ \E m \in Movies \ ExcludedMovies(lastCall.user) :
          Range(Movie(m).genre_ids) \cap DOMAIN ProfileOf(lastCall.user) # {}
    /\ lastCall.content = << >>

\* the popularity fallback ran to its end in the call kept in lastCall
PopularityAnswered ==
    lastCall.valid /\ lastCall.popularityRan /\ ~ lastCall.fail.popularity

\* the limit the fallback was called with
PopularityLimit ==
    lastCall.limit - (Len(lastCall.collaborative) + Len(lastCall.content))

\* list holds, in descending popularity order, the n most popular movies of S
MostPopular(list, S, n) ==
    /\ Len(list) = Min(n, Cardinality(S))
    /\ \A i \in DOMAIN list : list[i].movie \in S
    /\ \A i \in DOMAIN list : \A j \in DOMAIN list :
          i < j => /\ list[i].movie # list[j].movie
                   /\ Movie(list[i].movie).popularity >= Movie(list[j].movie).popularity
    /\ \A i \in DOMAIN list :
          \A m \in S \ { list[j].movie : j \in DOMAIN list } :
              Movie(m).popularity <= Movie(list[i].movie).popularity

\* C23 as claimed: the fallback returns the n most popular movies among
\* exactly those with popularity > 10 and average rating > 6.0 that the user
\* has neither favorited nor rated; no minimum vote count applies
C23_PopularWithoutVoteCount ==
    PopularityAnswered =>
        MostPopular(lastCall.popularity,
            { m \in Movies \ ExcludedMovies(lastCall.user) :
                Movie(m).popularity > 10 /\ Movie(m).vote_average > 60 },
            PopularityLimit)

\* C23: the fallback returns, in descending popularity order, the n most
\* popular movies among exactly those with popularity > 10, average rating
\* > 6.0 and more than 100 votes that the user has neither favorited nor rated
C23_PopularWithVoteCount ==
    PopularityAnswered =>
        MostPopular(lastCall.popularity,
            { m \in Movies \ ExcludedMovies(lastCall.user) :
                /\ Movie(m).popularity > 10
                /\ Movie(m).vote_average > 60
                /\ Movie(m).vote_count > 100 },
            PopularityLimit)

\* C23 witness: the fallback returned fewer movies than it was asked for
\* and left out a movie of popularity > 10 and average rating > 6.0 that the
\* user has neither favorited nor rated and that has 100 votes or fewer
C23_Witness ==
    /\ PopularityAnswered
    /\ Len(lastCall.popularity) < PopularityLimit
    /\ \E m \in Movies \ ExcludedMovies(lastCall.user) :
          /\ Movie(m).popularity > 10
          /\ Movie(m).vote_average > 60
          /\ Movie(m).vote_count <= 100
          /\ \A i \in DOMAIN lastCall.popularity : lastCall.popularity[i].movie # m

\* an execution looks the cache up in this step
LooksUp(w) ==
    /\ computations[w].pc \in {"idle", "get"}
    /\ computations'[w].pc \notin {"idle", "get"}

\* C24 as claimed: a call that finds a stored matrix, an empty one included,
\* returns that matrix without computing one
C24_StoredMatrixServed ==
    [][\A w \in Computers :
          (LooksUp(w) /\ cache.present)
              => /\ computations'[w].pc = "done"
                 /\ computations'[w].result = cache.matrix]_vars

\* the same for the stored matrices that have a row
C24_StoredRowsServed ==
    [][\A w \in Computers :
          (LooksUp(w) /\ cache.present /\ DOMAIN cache.matrix # {})
              => /\ computations'[w].pc = "done"
                 /\ computations'[w].result = cache.matrix]_vars

\* an execution stored the empty matrix, a user then reached five ratings,
\* and a later execution returned a matrix with a row for that user
C24_EmptyMatrixRecomputed ==
    /\ writes = 1
    /\ computations[1].pc = "done" /\ computations[1].result = << >>
    /\ computations[2].pc = "done" /\ DOMAIN computations[2].result # {}

\* C25: cleanup_expired_cache_task removes every recommendation row whose
\* expires_at is earlier than the current time and no other row: the rows
\* without an expiry and the rows that expire now or later stay as they are
C25_CleanupRemovesExpiredOnly ==
    [][(store.last = NoOp /\ store'.last.op = "cleanup" /\ store'.last.outcome = "ok")
          => store'.rows = { r \in store.rows :
                                r.expires_at.null \/ r.expires_at.at >= store.now }]_vars

\* C25 witness: a cleanup removed a row and left a row without an expiry, a
\* row that expires at this moment and a row that expires later
C25_Witness ==
    /\ store.last.op = "cleanup" /\ store.last.outcome = "ok"
    /\ store.last.data[1] >= 1
    /\ \E r \in store.rows : r.expires_at.null
    /\ \E r \in store.rows : ~ r.expires_at.null /\ r.expires_at.at = store.now
    /\ \E r \in store.rows : ~ r.expires_at.null /\ r.expires_at.at > store.now

\* C29 as claimed: when generate_user_recommendations_task has regenerated a
\* user's recommendations, no entry is left in the cache under a key
\* user_recommendations_<user id>_<limit> of that user
C29_ResponsesRemovedOnRegeneration ==
    [][(store.last = NoOp /\ store'.last.op = "regenerate" /\ store'.last.outcome = "ok")
          => \A e \in store'.responses : e.key.user # store'.last.user]_vars

\* the rows the user's regeneration replaces
HybridRowsOf(rows, user) == { r \in rows : r.user = user /\ r.type = "hybrid" }

\* C30 as claimed: a regeneration cycle that fails for a user (the engine
\* yields nothing, or a write fails) leaves the user's stored hybrid rows as
\* they were
C30_FailedCycleKeepsRows ==
    [][(/\ store.last = NoOp
        /\ store'.last.op = "regenerate"
        /\ store'.last.outcome \in {"error", "empty"})
          => HybridRowsOf(store'.rows, store'.last.user)
                = HybridRowsOf(store.rows, store'.last.user)]_vars

\* the similarity of the pair as a real number, exactly
RealCosine == _calculate_cosine_similarity(cosine.user_ratings, cosine.other_ratings)

\* the parts of C26 that do not bound the score from above: a stored score
\* is above 0.1, nobody is their own neighbor, and a pair whose cosine
\* similarity is at most 0.1 has no entry
StoredAboveTenth ==
    /\ cosine.stored =>
          /\ cosine.computed
          /\ cosine.user # cosine.other
          /\ BigGeq(BigMulSmall(cosine.similarity.n, 10, 0), BigPow2(- cosine.similarity.e))
          /\ BigMulSmall(cosine.similarity.n, 10, 0) # BigPow2(- cosine.similarity.e)
    /\ (cosine.compared /\ ~ AboveThreshold(RealCosine)) => ~ cosine.stored

NextAboveOne == [n |-> BigAdd(BigPow2(52), <<1>>), e |-> -52]

MergedMovies == { merged.all_recommendations[i].movie : i \in DOMAIN merged.all_recommendations }

\* the merged score of a movie: the highest score among its entries
MergedScore(movie) ==
    CHOOSE s \in { merged.all_recommendations[i].score :
                     i \in { i \in DOMAIN merged.all_recommendations :
                               merged.all_recommendations[i].movie = movie } } :
        \A i \in DOMAIN merged.all_recommendations :
            merged.all_recommendations[i].movie = movie
                => merged.all_recommendations[i].score <= s

\* the movies of the final list
FinalMovies == { merged.final[i].movie : i \in DOMAIN merged.final }

\* C27: the returned list is ordered by non-increasing merged score and
\* holds the `limit` highest-scored entries of the deduplicated merge: no
\* merged entry left out has a score above that of an entry returned
C27_TopOfMergeInOrder ==
    merged.done =>
        /\ \A i, j \in DOMAIN merged.final :
              i < j => /\ merged.final[i].score >= merged.final[j].score
                       /\ merged.final[i].movie # merged.final[j].movie
        /\ \A i \in DOMAIN merged.final :
              /\ merged.final[i].movie \in MergedMovies
              /\ merged.final[i].score = MergedScore(merged.final[i].movie)
        /\ Len(merged.final) = Min(merged.limit, Cardinality(MergedMovies))
        /\ \A m \in MergedMovies \ FinalMovies :
              \A i \in DOMAIN merged.final : MergedScore(m) <= merged.final[i].score

\* C27 witness: a list in which a movie has two entries and the lower score
\* comes first; a merged movie is left out and the final list is full
C27_Witness ==
    /\ merged.done
    /\ merged.limit >= 1 /\ Len(merged.final) = merged.limit
    /\ MergedMovies \ FinalMovies # {}
    /\ Cardinality(MergedMovies) < Len(merged.all_recommendations)
    /\ merged.all_recommendations[1].score < merged.final[1].score

\* the genres of the movies of the rating rows the profile is built from
RatedGenres ==
    UNION { Range(Movie(candidate.user_ratings[i].movie).genre_ids) :
              i \in DOMAIN candidate.user_ratings }

\* genre_base_weight * (rating / 5.0) of the rows whose movie has the genre,
\* in hundredths
ScaledWeights(genre_id) ==
    { (genre_weights(genre_id) * candidate.user_ratings[i].rating) \div 10 :
        i \in { i \in DOMAIN candidate.user_ratings :
                  genre_id \in Range(Movie(candidate.user_ratings[i].movie).genre_ids) } }

\* C28: the profile maps every genre to a weight in (0, 1]; a preferred,
\* known genre has weight 1.0 whatever the ratings add, a genre that comes
\* from the ratings only has the highest genre_base_weight * (rating / 5.0)
\* of the rated movies, in whatever order the ratings are processed
C28_ProfileWeights ==
    candidate.scored =>
        /\ DOMAIN candidate.user_profile = _get_genre_ids(candidate.user_genres) \cup RatedGenres
        /\ \A g \in DOMAIN candidate.user_profile :
              /\ 0 < candidate.user_profile[g] /\ candidate.user_profile[g] <= 100
              /\ g \in _get_genre_ids(candidate.user_genres)
                    => candidate.user_profile[g] = 100
              /\ g \notin _get_genre_ids(candidate.user_genres)
                    => /\ candidate.user_profile[g] \in ScaledWeights(g)
                       /\ \A w \in ScaledWeights(g) : w <= candidate.user_profile[g]
        /\ _build_user_profile(candidate.user_genres, Reverse(candidate.user_ratings))
              = candidate.user_profile

\* C28 witness: a preferred genre that a rated movie would give less than
\* 1.0, and a genre from the ratings only whose first rated movie gives it
\* more than the second
C28_Witness ==
    /\ candidate.scored
    /\ \E g \in _get_genre_ids(candidate.user_genres) \cap RatedGenres :
          \A w \in ScaledWeights(g) : w < 100
    /\ \E g \in RatedGenres \ _get_genre_ids(candidate.user_genres) :
          /\ Cardinality(ScaledWeights(g)) >= 2
          /\ Len(candidate.user_ratings) = 2
          /\ g \in Range(Movie(candidate.user_ratings[2].movie).genre_ids)
          /\ (genre_weights(g) * candidate.user_ratings[2].rating) \div 10
                < candidate.user_profile[g]

====
